---- MODULE Spec2Model ----
(***************************************************************************)
(* Model of utils/yaml_converter.py: the YAML-flavoured question parser     *)
(* (_custom_yaml_parse), the validators (validate_question and the          *)
(* validator of each type), the XML emitters (_format_question and the      *)
(* emitter of each type) and the batch driver (convert) of                  *)
(* YAMLtoQTIConverter.                                                      *)
(*                                                                          *)
(* A Python str is a sequence of one-character strings, so that strip,      *)
(* startswith, split and slicing are computed as Python computes them.      *)
(* A Python dict is a function whose domain is its set of keys.  A value    *)
(* of a dict is tagged with its Python type: [k |-> "str", s |-> ...],      *)
(* [k |-> "bool", b |-> ...], [k |-> "int", n |-> ...],                     *)
(* [k |-> "list", l |-> ...], [k |-> "dict", d |-> ...].  None, where a     *)
(* local is either None or a dict, is the empty sequence and the dict d     *)
(* is <<d>>.                                                                *)
(***************************************************************************)
EXTENDS Integers, Sequences, FiniteSets, TLC

(***************************************************************************)
(* Python str operations                                                   *)
(***************************************************************************)
\* characters removed by str.strip() / str.rstrip() without argument
Whitespace == {" ", "\t", "\r"}

\* characters removed by .strip('"\'')
QuoteChars == {"\"", "'"}

UpperCase == <<"A", "B", "C", "D", "E", "F", "G", "H", "I", "J", "K", "L", "M", "N", "O", "P", "Q", "R", "S", "T", "U", "V", "W", "X", "Y", "Z">>

LowerCase == <<"a", "b", "c", "d", "e", "f", "g", "h", "i", "j", "k", "l", "m", "n", "o", "p", "q", "r", "s", "t", "u", "v", "w", "x", "y", "z">>

Digits == <<"0", "1", "2", "3", "4", "5", "6", "7", "8", "9">>

\* the elements of a sequence
Range(s) == {s[n] : n \in 1..Len(s)}

\* str.isalnum() of one character
IsAlnum(c) == c \in Range(UpperCase) \cup Range(LowerCase) \cup Range(Digits)

RECURSIVE LStripChars(_, _)
LStripChars(s, cs) ==
    IF s # <<>> /\ Head(s) \in cs THEN LStripChars(Tail(s), cs) ELSE s

RECURSIVE RStripChars(_, _)
RStripChars(s, cs) ==
    IF s # <<>> /\ s[Len(s)] \in cs
    THEN RStripChars(SubSeq(s, 1, Len(s) - 1), cs)
    ELSE s

\* s.strip(cs)
StripChars(s, cs) == LStripChars(RStripChars(s, cs), cs)

\* s.rstrip()
RStrip(s) == RStripChars(s, Whitespace)

\* s.strip()
Strip(s) == StripChars(s, Whitespace)

\* s.strip().strip('"\'')
StripQuoted(s) == StripChars(Strip(s), QuoteChars)

\* s.startswith(p)
StartsWith(s, p) == Len(s) >= Len(p) /\ SubSeq(s, 1, Len(p)) = p

\* s.endswith(p)
EndsWith(s, p) == Len(s) >= Len(p) /\ SubSeq(s, Len(s) - Len(p) + 1, Len(s)) = p

\* s[n:]
From(s, n) == SubSeq(s, n + 1, Len(s))

\* c in s, for a single character c
HasChar(s, c) == \E n \in 1..Len(s) : s[n] = c

\* the 1-based positions at which sub occurs in s
Occurrences(s, sub) ==
    {n \in 1..(Len(s) - Len(sub) + 1) : SubSeq(s, n, n + Len(sub) - 1) = sub}

\* sub in s
Infix(s, sub) == Len(sub) = 0 \/ Occurrences(s, sub) # {}

Min(S) == CHOOSE n \in S : \A m \in S : n <= m

Max(S) == CHOOSE n \in S : \A m \in S : n >= m

\* s.rindex(sub), 0-based as in Python; only used where sub occurs in s
RIndex(s, sub) == Max(Occurrences(s, sub)) - 1

\* s.split(c, 1) for a string that holds c: the parts before and after the first c
SplitOnce(s, c) ==
    LET n == Min({m \in 1..Len(s) : s[m] = c})
    IN  <<SubSeq(s, 1, n - 1), SubSeq(s, n + 1, Len(s))>>

LowerChar(c) ==
    IF c \in Range(UpperCase)
    THEN LowerCase[CHOOSE n \in 1..26 : UpperCase[n] = c]
    ELSE c

\* s.lower()
Lower(s) == [n \in 1..Len(s) |-> LowerChar(s[n])]

RECURSIVE Join(_, _)
\* sep.join(parts)
Join(parts, sep) ==
    IF parts = <<>> THEN <<>>
    ELSE IF Len(parts) = 1 THEN parts[1]
    ELSE parts[1] \o sep \o Join(Tail(parts), sep)

\* int(s) succeeds: an optional sign and decimal digits, blanks around ignored
IsInt(s) ==
    LET t == Strip(s)
        u == IF t # <<>> /\ t[1] \in {"+", "-"} THEN Tail(t) ELSE t
    IN  u # <<>> /\ \A n \in 1..Len(u) : u[n] \in Range(Digits)

RECURSIVE DigitsValue(_)
DigitsValue(u) ==
    IF u = <<>> THEN 0
    ELSE 10 * DigitsValue(SubSeq(u, 1, Len(u) - 1))
         + (CHOOSE d \in 0..9 : Digits[d + 1] = u[Len(u)])

\* int(s), only used where IsInt(s)
ToInt(s) ==
    LET t == Strip(s)
    IN  IF t[1] = "-" THEN 0 - DigitsValue(Tail(t))
        ELSE IF t[1] = "+" THEN DigitsValue(Tail(t))
        ELSE DigitsValue(t)

RECURSIVE NatStr(_)
\* str(n) for a natural number n
NatStr(n) == IF n < 10 THEN <<Digits[n + 1]>> ELSE NatStr(n \div 10) \o <<Digits[(n % 10) + 1]>>

\* str(n) for an int n
IntStr(n) == IF n < 0 THEN <<"-">> \o NatStr(0 - n) ELSE NatStr(n)

(***************************************************************************)
(* Python values and dicts                                                 *)
(***************************************************************************)
StrV(s) == [k |-> "str", s |-> s]

BoolV(b) == [k |-> "bool", b |-> b]

IntV(n) == [k |-> "int", n |-> n]

ListV(l) == [k |-> "list", l |-> l]

DictV(d) == [k |-> "dict", d |-> d]

\* a dict entry that holds a reference to a list or dict the parser still
\* mutates after storing it (question_dict['choices'] = choices stores the
\* object, not a copy); resolved when the block has been scanned
RefV(r) == [k |-> "ref", r |-> r]

EmptyDict == <<>>

\* d[key] = v
Put(d, key, v) == [x \in (DOMAIN d) \cup {key} |-> IF x = key THEN v ELSE d[x]]

\* key in d
Has(d, key) == key \in DOMAIN d

\* bool(v) of a tagged value
Truthy(v) ==
    CASE v.k = "str" -> v.s # <<>>
      [] v.k = "bool" -> v.b
      [] v.k = "int" -> v.n # 0
      [] v.k = "list" -> v.l # <<>>
      [] v.k = "dict" -> DOMAIN v.d # {}
      [] OTHER -> TRUE

\* str(v) of a scalar tagged value, as an f-string or str.format renders it
PyStr(v) ==
    CASE v.k = "str" -> v.s
      [] v.k = "bool" -> (IF v.b THEN <<"T", "r", "u", "e">> ELSE <<"F", "a", "l", "s", "e">>)
      [] v.k = "int" -> IntStr(v.n)
      [] OTHER -> <<"?">>

(***************************************************************************)
(* The string literals of the source                                        *)
(***************************************************************************)
s_type_header == <<"-", " ", "t", "y", "p", "e", ":">>

s_type == <<"t", "y", "p", "e">>

s_match == <<"m", "a", "t", "c", "h">>

s_fib == <<"f", "i", "b">>

s_order == <<"o", "r", "d", "e", "r">>

s_mcq == <<"m", "c", "q">>

s_mrq == <<"m", "r", "q">>

s_tf == <<"t", "f">>

s_essay == <<"e", "s", "s", "a", "y">>

s_matchSets_colon == <<"m", "a", "t", "c", "h", "S", "e", "t", "s", ":">>

s_source_colon == <<"s", "o", "u", "r", "c", "e", ":">>

s_target_colon == <<"t", "a", "r", "g", "e", "t", ":">>

s_dash_identifier == <<"-", " ", "i", "d", "e", "n", "t", "i", "f", "i", "e", "r", ":">>

s_matchMax == <<"m", "a", "t", "c", "h", "M", "a", "x">>

s_correctPairs_colon == <<"c", "o", "r", "r", "e", "c", "t", "P", "a", "i", "r", "s", ":">>

s_dash_dash_sp == <<"-", " ", "-", " ">>

s_sp_sp_dash_sp == <<" ", " ", "-", " ">>

s_correctAnswers_colon == <<"c", "o", "r", "r", "e", "c", "t", "A", "n", "s", "w", "e", "r", "s", ":">>

s_dash_dash == <<"-", " ", "-">>

s_correctSequence_colon == <<"c", "o", "r", "r", "e", "c", "t", "S", "e", "q", "u", "e", "n", "c", "e", ":">>

s_dash_sp == <<"-", " ">>

s_choices_colon == <<"c", "h", "o", "i", "c", "e", "s", ":">>

s_text == <<"t", "e", "x", "t">>

s_correct == <<"c", "o", "r", "r", "e", "c", "t">>

s_true == <<"t", "r", "u", "e">>

s_false == <<"f", "a", "l", "s", "e">>

s_True == <<"T", "r", "u", "e">>

s_dq3 == <<"\"", "\"", "\"">>

s_sq3 == <<"'", "'", "'">>

s_identifier == <<"i", "d", "e", "n", "t", "i", "f", "i", "e", "r">>

s_title == <<"t", "i", "t", "l", "e">>

s_prompt == <<"p", "r", "o", "m", "p", "t">>

s_adaptive == <<"a", "d", "a", "p", "t", "i", "v", "e">>

s_timeDependent == <<"t", "i", "m", "e", "D", "e", "p", "e", "n", "d", "e", "n", "t">>

s_choices == <<"c", "h", "o", "i", "c", "e", "s">>

s_matchSets == <<"m", "a", "t", "c", "h", "S", "e", "t", "s">>

s_correctPairs == <<"c", "o", "r", "r", "e", "c", "t", "P", "a", "i", "r", "s">>

s_correctAnswers == <<"c", "o", "r", "r", "e", "c", "t", "A", "n", "s", "w", "e", "r", "s">>

s_correctSequence == <<"c", "o", "r", "r", "e", "c", "t", "S", "e", "q", "u", "e", "n", "c", "e">>

s_source == <<"s", "o", "u", "r", "c", "e">>

s_target == <<"t", "a", "r", "g", "e", "t">>

s_unknown == <<"u", "n", "k", "n", "o", "w", "n">>

s_A == <<"A">>

s_B == <<"B">>

s_C == <<"C">>

s_D == <<"D">>

s_question_text == <<"q", "u", "e", "s", "t", "i", "o", "n", "_", "t", "e", "x", "t">>

s_question_image == <<"q", "u", "e", "s", "t", "i", "o", "n", "_", "i", "m", "a", "g", "e">>

s_shuffle == <<"s", "h", "u", "f", "f", "l", "e">>

s_maxChoices == <<"m", "a", "x", "C", "h", "o", "i", "c", "e", "s">>

s_maxAssociations == <<"m", "a", "x", "A", "s", "s", "o", "c", "i", "a", "t", "i", "o", "n", "s">>

s_expectedLength == <<"e", "x", "p", "e", "c", "t", "e", "d", "L", "e", "n", "g", "t", "h">>

s_expectedLines == <<"e", "x", "p", "e", "c", "t", "e", "d", "L", "i", "n", "e", "s">>

s_responseFormat == <<"r", "e", "s", "p", "o", "n", "s", "e", "F", "o", "r", "m", "a", "t">>

s_amp == <<"&", "a", "m", "p", ";">>

s_lt == <<"&", "l", "t", ";">>

s_gt == <<"&", "g", "t", ";">>

s_quot == <<"&", "q", "u", "o", "t", ";">>

s_apos == <<"&", "a", "p", "o", "s", ";">>

s_src_eq == <<"s", "r", "c", "=">>

s_image == <<"i", "m", "a", "g", "e">>

(***************************************************************************)
(* _custom_yaml_parse: the scan of one block                                *)
(***************************************************************************)
None == <<>>

Some(d) == <<d>>

\* the outcome of one section of the loop body: cont is TRUE when the section
\* ended the iteration with `continue`
Continue(p) == [p |-> p, cont |-> TRUE]

FallThrough(p) == [p |-> p, cont |-> FALSE]

\* question_dict.get('type') == t
TypeIs(question_dict, t) == Has(question_dict, s_type) /\ question_dict[s_type] = StrV(t)

\* the locals of the scan as they are set before the while loop
ParserStart(lines) ==
    [ i |-> 1,
      question_dict |->
          IF StartsWith(lines[1], s_type_header)
          THEN Put(EmptyDict, s_type, StrV(StripQuoted(SplitOnce(lines[1], ":")[2])))
          ELSE EmptyDict,
      in_choices |-> FALSE,
      choices |-> <<>>,
      current_choice |-> None,
      in_fib_answers |-> FALSE,
      fib_answers |-> <<>>,
      current_fib_answer |-> <<>>,
      in_match_sets |-> FALSE,
      match_sets |-> [source |-> <<>>, target |-> <<>>],
      in_source |-> FALSE,
      in_target |-> FALSE,
      current_match_item |-> None,
      in_correct_pairs |-> FALSE,
      correct_pairs |-> <<>>,
      current_pair |-> <<>>,
      in_correct_sequence |-> FALSE,
      correct_sequence |-> <<>> ]

\* match_sets['source'].append(item) if in_source else match_sets['target'].append(item)
AppendMatchItem(match_sets, in_source, item) ==
    IF in_source
    THEN [match_sets EXCEPT !.source = Append(@, item)]
    ELSE [match_sets EXCEPT !.target = Append(@, item)]

\* the `if question_dict.get('type') == 'match':` section of the loop body
MatchSection(p, line) ==
    LET sline == Strip(line) IN
    IF sline = s_matchSets_colon
    THEN Continue([p EXCEPT !.in_match_sets = TRUE, !.i = @ + 1])
    ELSE IF p.in_match_sets
    THEN IF sline = s_source_colon
         THEN LET flush == p.in_target /\ p.current_match_item # None IN
              Continue([p EXCEPT
                  !.match_sets = IF flush THEN [@ EXCEPT !.target = Append(@, p.current_match_item[1])] ELSE @,
                  !.current_match_item = IF flush THEN None ELSE @,
                  !.in_source = TRUE,
                  !.in_target = FALSE,
                  !.i = @ + 1])
         ELSE IF sline = s_target_colon
         THEN LET flush == p.in_source /\ p.current_match_item # None IN
              Continue([p EXCEPT
                  !.match_sets = IF flush THEN [@ EXCEPT !.source = Append(@, p.current_match_item[1])] ELSE @,
                  !.current_match_item = IF flush THEN None ELSE @,
                  !.in_source = FALSE,
                  !.in_target = TRUE,
                  !.i = @ + 1])
         ELSE IF (p.in_source \/ p.in_target) /\ StartsWith(sline, s_dash_identifier)
         THEN FallThrough([p EXCEPT
                  !.match_sets = IF p.current_match_item # None
                                 THEN AppendMatchItem(@, p.in_source, p.current_match_item[1])
                                 ELSE @,
                  !.current_match_item =
                      Some(Put(EmptyDict, s_identifier, StrV(StripQuoted(From(sline, 13)))))])
         ELSE IF p.current_match_item # None /\ HasChar(line, ":") /\ (p.in_source \/ p.in_target)
         THEN LET kv == SplitOnce(sline, ":")
                  field == Strip(kv[1])
                  value == StripQuoted(kv[2])
                  v == IF field = s_matchMax /\ IsInt(value) THEN IntV(ToInt(value)) ELSE StrV(value)
              IN  FallThrough([p EXCEPT !.current_match_item = Some(Put(@[1], field, v))])
         ELSE IF ~StartsWith(line, <<" ">>)
         THEN Continue([p EXCEPT
                  !.match_sets = IF p.current_match_item # None
                                 THEN AppendMatchItem(@, p.in_source, p.current_match_item[1])
                                 ELSE @,
                  !.current_match_item = None,
                  !.question_dict = Put(@, s_matchSets, RefV("match_sets")),
                  !.in_match_sets = FALSE,
                  !.in_source = FALSE,
                  !.in_target = FALSE])
         ELSE FallThrough(p)
    ELSE IF sline = s_correctPairs_colon
    THEN Continue([p EXCEPT !.in_correct_pairs = TRUE, !.i = @ + 1])
    ELSE IF p.in_correct_pairs
    THEN IF StartsWith(sline, s_dash_dash_sp)
         THEN FallThrough([p EXCEPT !.current_pair = <<StripQuoted(From(sline, 4))>>])
         ELSE IF StartsWith(sline, s_sp_sp_dash_sp) /\ p.current_pair # <<>>
         THEN FallThrough([p EXCEPT
                  !.correct_pairs = Append(@, Append(p.current_pair, StripQuoted(From(sline, 4)))),
                  !.current_pair = <<>>])
         ELSE IF ~StartsWith(line, <<" ">>)
         THEN Continue([p EXCEPT
                  !.question_dict = Put(@, s_correctPairs, RefV("correct_pairs")),
                  !.in_correct_pairs = FALSE])
         ELSE FallThrough(p)
    ELSE FallThrough(p)

\* the `elif question_dict.get('type') == 'fib':` section of the loop body
FibSection(p, line) ==
    LET sline == Strip(line) IN
    IF sline = s_correctAnswers_colon
    THEN Continue([p EXCEPT
             !.in_fib_answers = TRUE,
             !.fib_answers = <<>>,
             !.current_fib_answer = <<>>,
             !.i = @ + 1])
    ELSE IF p.in_fib_answers
    THEN IF sline = s_dash_dash
         THEN Continue([p EXCEPT
                  !.fib_answers = IF p.current_fib_answer # <<>> THEN Append(@, p.current_fib_answer) ELSE @,
                  !.current_fib_answer = <<>>,
                  !.i = @ + 1])
         ELSE IF StartsWith(sline, s_dash_dash_sp) /\ Len(sline) > 4
         THEN FallThrough([p EXCEPT
                  !.fib_answers = IF p.current_fib_answer # <<>> THEN Append(@, p.current_fib_answer) ELSE @,
                  !.current_fib_answer = <<StripQuoted(From(sline, 4))>>])
         ELSE IF StartsWith(sline, s_sp_sp_dash_sp)
         THEN FallThrough([p EXCEPT
                  !.current_fib_answer = Append(@, StripQuoted(From(sline, 4)))])
         ELSE IF ~StartsWith(line, <<" ">>)
         THEN Continue([p EXCEPT
                  !.fib_answers = IF p.current_fib_answer # <<>> THEN Append(@, p.current_fib_answer) ELSE @,
                  !.question_dict =
                      Put(@, s_correctAnswers,
                          ListV(IF p.current_fib_answer # <<>>
                                THEN Append(p.fib_answers, p.current_fib_answer)
                                ELSE p.fib_answers)),
                  !.in_fib_answers = FALSE,
                  !.current_fib_answer = <<>>])
         ELSE FallThrough(p)
    ELSE FallThrough(p)

\* the order section with an exit branch that leaves in_correct_sequence set
OrderSectionStaying(p, line) ==
    LET sline == Strip(line) IN
    IF sline = s_correctSequence_colon
    THEN Continue([p EXCEPT !.in_correct_sequence = TRUE, !.i = @ + 1])
    ELSE IF p.in_correct_sequence
    THEN IF StartsWith(sline, s_dash_sp)
         THEN FallThrough([p EXCEPT !.correct_sequence = Append(@, StripQuoted(From(sline, 2)))])
         ELSE IF ~StartsWith(line, <<" ">>)
         THEN Continue([p EXCEPT
                  !.question_dict = Put(@, s_correctSequence, RefV("correct_sequence"))])
         ELSE FallThrough(p)
    ELSE FallThrough(p)

\* the `elif question_dict.get('type') == 'order':` section of the loop body
OrderSection(p, line) ==
    LET sline == Strip(line) IN
    IF sline = s_correctSequence_colon
    THEN Continue([p EXCEPT !.in_correct_sequence = TRUE, !.i = @ + 1])
    ELSE IF p.in_correct_sequence
    THEN IF StartsWith(sline, s_dash_sp)
         THEN FallThrough([p EXCEPT !.correct_sequence = Append(@, StripQuoted(From(sline, 2)))])
         ELSE IF ~StartsWith(line, <<" ">>)
         THEN Continue([p EXCEPT
                  !.question_dict = Put(@, s_correctSequence, RefV("correct_sequence")),
                  !.in_correct_sequence = FALSE])
         ELSE FallThrough(p)
    ELSE FallThrough(p)

\* the value of a choice's text field and the line index after reading it:
\* a value that starts with a triple quote runs to the closing triple quote
ChoiceText(value, lines, i) ==
    IF StartsWith(value, s_dq3) \/ StartsWith(value, s_sq3)
    THEN LET quote_type == SubSeq(value, 1, 3) IN
         IF Infix(From(value, 3), quote_type)
         THEN [value |-> SubSeq(value, 4, RIndex(value, quote_type)), i |-> i]
         ELSE LET closing == {j \in (i + 1)..(Len(lines) - 1) : Infix(lines[j + 1], quote_type)} IN
              IF closing = {}
              THEN [value |-> Join(<<From(value, 3)>> \o SubSeq(lines, i + 2, Len(lines)), <<" ">>),
                    i |-> i]
              ELSE LET j == Min(closing) IN
                   [value |-> Join(<<From(value, 3)>> \o SubSeq(lines, i + 2, j)
                                   \o <<SubSeq(lines[j + 1], 1, RIndex(lines[j + 1], quote_type))>>,
                                   <<" ">>),
                    i |-> j]
    ELSE [value |-> value, i |-> i]

\* the `choices:` sentinel and the `if in_choices:` section of the loop body
ChoicesSection(p, line, lines) ==
    LET sline == Strip(line) IN
    IF sline = s_choices_colon
    THEN Continue([p EXCEPT !.in_choices = TRUE, !.i = @ + 1])
    ELSE IF p.in_choices
    THEN IF StartsWith(sline, s_dash_identifier)
         THEN FallThrough([p EXCEPT
                  !.choices = IF p.current_choice # None THEN Append(@, p.current_choice[1]) ELSE @,
                  !.current_choice =
                      Some(Put(EmptyDict, s_identifier, StrV(StripQuoted(From(sline, 13)))))])
         ELSE IF p.current_choice # None /\ HasChar(line, ":")
         THEN LET kv == SplitOnce(sline, ":")
                  field == Strip(kv[1])
                  value == StripQuoted(kv[2])
              IN  IF field = s_text
                  THEN LET t == ChoiceText(value, lines, p.i) IN
                       FallThrough([p EXCEPT
                           !.current_choice = Some(Put(@[1], field, StrV(t.value))),
                           !.i = t.i])
                  ELSE IF field = s_correct
                  THEN FallThrough([p EXCEPT
                           !.current_choice = Some(Put(@[1], field, BoolV(Lower(value) = s_true)))])
                  ELSE FallThrough([p EXCEPT
                           !.current_choice = Some(Put(@[1], field, StrV(value)))])
         ELSE IF ~StartsWith(line, <<" ">>)
         THEN Continue([p EXCEPT
                  !.choices = IF p.current_choice # None THEN Append(@, p.current_choice[1]) ELSE @,
                  !.current_choice = None,
                  !.question_dict = Put(@, s_choices, RefV("choices")),
                  !.in_choices = FALSE])
         ELSE FallThrough(p)
    ELSE FallThrough(p)

\* the value a regular `key: value` line stores: surrounding quotes removed,
\* the words true and false turned into booleans
ScalarValue(raw) ==
    LET value == Strip(raw)
        unquoted ==
            IF (StartsWith(value, <<"\"">>) /\ EndsWith(value, <<"\"">>))
               \/ (StartsWith(value, <<"'">>) /\ EndsWith(value, <<"'">>))
            THEN SubSeq(value, 2, Len(value) - 1)
            ELSE IF (StartsWith(value, s_dq3) /\ EndsWith(value, s_dq3))
                    \/ (StartsWith(value, s_sq3) /\ EndsWith(value, s_sq3))
            THEN SubSeq(value, 4, Len(value) - 3)
            ELSE value
    IN  IF Lower(unquoted) = s_true THEN BoolV(TRUE)
        ELSE IF Lower(unquoted) = s_false THEN BoolV(FALSE)
        ELSE StrV(unquoted)

\* the `# Process regular fields` section and the final `i += 1`
RegularField(p, line) ==
    LET q == IF /\ HasChar(line, ":")
                /\ ~p.in_choices
                /\ ~p.in_match_sets
                /\ ~p.in_correct_pairs
                /\ ~p.in_correct_sequence
                /\ ~p.in_fib_answers
             THEN LET kv == SplitOnce(line, ":") IN
                  [p EXCEPT !.question_dict = Put(@, Strip(kv[1]), ScalarValue(kv[2]))]
             ELSE p
    IN  [q EXCEPT !.i = @ + 1]

\* one iteration of `while i < len(lines):`
ParseLine(p, lines) ==
    LET line == RStrip(lines[p.i + 1]) IN
    IF Strip(line) = <<>>
    THEN [p EXCEPT !.i = @ + 1]
    ELSE LET typed ==
                 IF TypeIs(p.question_dict, s_match) THEN MatchSection(p, line)
                 ELSE IF TypeIs(p.question_dict, s_fib) THEN FibSection(p, line)
                 ELSE IF TypeIs(p.question_dict, s_order) THEN OrderSection(p, line)
                 ELSE FallThrough(p)
         IN  IF typed.cont THEN typed.p
             ELSE LET ch == ChoicesSection(typed.p, line, lines) IN
                  IF ch.cont THEN ch.p
                  ELSE RegularField(ch.p, line)

\* the object a stored reference stands for, once the scan and the final appends are over
Resolve(v, choices, match_sets, correct_pairs, correct_sequence) ==
    IF v.k # "ref" THEN v
    ELSE CASE v.r = "choices" -> ListV(choices)
           [] v.r = "match_sets" -> DictV(match_sets)
           [] v.r = "correct_pairs" -> ListV(correct_pairs)
           [] v.r = "correct_sequence" -> ListV(correct_sequence)

RECURSIVE GeneratedPairs(_, _, _)
RECURSIVE GeneratedPairsSwapped(_, _, _)
\* the default pairs with the target identifier written first
GeneratedPairsSwapped(source_choices, target_choices, pair_count) ==
    IF pair_count = 0 THEN <<>>
    ELSE LET source == source_choices[pair_count]
             target == target_choices[pair_count]
             source_ok == Has(source, s_identifier) /\ Truthy(source[s_identifier])
             target_ok == Has(target, s_identifier) /\ Truthy(target[s_identifier])
             before == GeneratedPairsSwapped(source_choices, target_choices, pair_count - 1)
         IN  IF source_ok /\ target_ok
             THEN Append(before, <<target[s_identifier].s, source[s_identifier].s>>)
             ELSE before

\* the default pairs: source and target items matched by index, for the first
\* pair_count indices at which both identifiers are non-empty
GeneratedPairs(source_choices, target_choices, pair_count) ==
    IF pair_count = 0 THEN <<>>
    ELSE LET source == source_choices[pair_count]
             target == target_choices[pair_count]
             source_ok == Has(source, s_identifier) /\ Truthy(source[s_identifier])
             target_ok == Has(target, s_identifier) /\ Truthy(target[s_identifier])
             before == GeneratedPairs(source_choices, target_choices, pair_count - 1)
         IN  IF source_ok /\ target_ok
             THEN Append(before, <<source[s_identifier].s, target[s_identifier].s>>)
             ELSE before

\* the code after the while loop: the pending items are appended, the lists are
\* stored, and a match question without correctPairs gets the default pairs.
\* raised is TRUE when that code raises (a matchSets entry that is not a dict).
ParseEnd(p) ==
    LET store_choices == p.in_choices /\ p.current_choice # None
        choices == IF store_choices THEN Append(p.choices, p.current_choice[1]) ELSE p.choices
        qd1 == IF store_choices THEN Put(p.question_dict, s_choices, RefV("choices")) ELSE p.question_dict
        is_match == TypeIs(qd1, s_match)
        store_match == is_match /\ p.in_match_sets /\ p.current_match_item # None
        match_sets ==
            IF store_match /\ p.in_source
            THEN [p.match_sets EXCEPT !.source = Append(@, p.current_match_item[1])]
            ELSE IF store_match /\ p.in_target
            THEN [p.match_sets EXCEPT !.target = Append(@, p.current_match_item[1])]
            ELSE p.match_sets
        qd2 == IF store_match THEN Put(qd1, s_matchSets, RefV("match_sets")) ELSE qd1
        qd3 == IF is_match /\ p.in_correct_pairs
               THEN Put(qd2, s_correctPairs, RefV("correct_pairs"))
               ELSE qd2
        qd4 == IF TypeIs(qd3, s_order) /\ p.in_correct_sequence
               THEN Put(qd3, s_correctSequence, RefV("correct_sequence"))
               ELSE qd3
        qd5 == IF TypeIs(qd4, s_fib) /\ p.in_fib_answers /\ p.current_fib_answer # <<>>
               THEN Put(qd4, s_correctAnswers, ListV(Append(p.fib_answers, p.current_fib_answer)))
               ELSE qd4
        qd == [key \in DOMAIN qd5 |->
                  Resolve(qd5[key], choices, match_sets, p.correct_pairs, p.correct_sequence)]
        wants_default == is_match /\ Has(qd, s_matchSets) /\ ~Has(qd, s_correctPairs)
        sets == qd[s_matchSets]
    IN  IF ~wants_default
        THEN [raised |-> FALSE, question |-> qd]
        ELSE IF sets.k = "dict"
        THEN IF sets.d.source # <<>> /\ sets.d.target # <<>>
             THEN [raised |-> FALSE,
                   question |->
                       Put(qd, s_correctPairs,
                           ListV(GeneratedPairs(sets.d.source, sets.d.target,
                                                Min({Len(sets.d.source), Len(sets.d.target)}))))]
             ELSE [raised |-> FALSE, question |-> qd]
        ELSE IF sets.k = "str"
        THEN \* 'source' in s and 'target' in s are substring tests, s['source'] raises TypeError
             IF Infix(sets.s, s_source) /\ Infix(sets.s, s_target)
             THEN [raised |-> TRUE, question |-> qd]
             ELSE [raised |-> FALSE, question |-> qd]
        ELSE \* 'source' in True raises TypeError
             [raised |-> TRUE, question |-> qd]

RECURSIVE Scan(_, _)
\* the while loop run to its end
Scan(p, lines) == IF p.i < Len(lines) THEN Scan(ParseLine(p, lines), lines) ELSE p

\* the body of `for block in question_blocks:` for one block
ParseBlock(lines) == ParseEnd(Scan(ParserStart(lines), lines))

(***************************************************************************)
(* _custom_yaml_parse: the split of the text into blocks.  The text is the  *)
(* sequence of its lines (yaml_str.split('\n')).                            *)
(***************************************************************************)
RECURSIVE SplitAtHeaders(_)
\* re.split(r'(?=^- type:)', yaml_str, flags=re.MULTILINE): a new piece
\* starts at every line that starts with `- type:`
SplitAtHeaders(text) ==
    IF text = <<>> THEN <<>>
    ELSE LET rest == SplitAtHeaders(Tail(text)) IN
         IF rest = <<>> THEN <<<<Head(text)>>>>
         ELSE IF StartsWith(rest[1][1], s_type_header)
         THEN <<<<Head(text)>>>> \o rest
         ELSE <<<<Head(text)>> \o rest[1]>> \o Tail(rest)

\* a line counts as blank only when it has no character at all
IsBlankWhenEmpty(line) == line = <<>>

\* not line.strip()
IsBlank(line) == Strip(line) = <<>>

RECURSIVE DropLeadingBlank(_)
DropLeadingBlank(block) ==
    IF block # <<>> /\ IsBlank(Head(block)) THEN DropLeadingBlank(Tail(block)) ELSE block

RECURSIVE DropTrailingBlank(_)
DropTrailingBlank(block) ==
    IF block # <<>> /\ IsBlank(block[Len(block)])
    THEN DropTrailingBlank(SubSeq(block, 1, Len(block) - 1))
    ELSE block

\* block.strip().split('\n'), for a block that is not blank
BlockLines(block) ==
    LET b == DropTrailingBlank(DropLeadingBlank(block))
        first == [b EXCEPT ![1] = LStripChars(@, Whitespace)]
    IN  [first EXCEPT ![Len(first)] = RStrip(@)]

\* the blocks the loop processes: `if not block.strip(): continue` skips the blank ones
QuestionBlocks(text) ==
    LET pieces == SplitAtHeaders(text)
        kept == SelectSeq(pieces, LAMBDA b : \E n \in 1..Len(b) : ~IsBlank(b[n]))
    IN  [n \in 1..Len(kept) |-> BlockLines(kept[n])]

(***************************************************************************)
(* The XML emitters.  An emitted XML string is the record of the values     *)
(* bound to the placeholders of the template of its type; markup the        *)
(* emitter builds itself (response declarations, interactions, choice       *)
(* elements) is kept as structure, text taken from the question as strings. *)
(***************************************************************************)
RECURSIVE ReplaceAll(_, _, _)
\* text.replace(char, entity)
ReplaceAll(text, char, entity) ==
    IF text = <<>> THEN <<>>
    ELSE (IF Head(text) = char THEN entity ELSE <<Head(text)>>) \o ReplaceAll(Tail(text), char, entity)

\* the five replacements with the one of & made last
EscapeStrAmpersandLast(text) ==
    ReplaceAll(ReplaceAll(ReplaceAll(ReplaceAll(ReplaceAll(text, "<", s_lt), ">", s_gt), "\"", s_quot), "'", s_apos), "&", s_amp)

\* _escape_xml_chars of a str: the five replacements, one after the other, & first
EscapeStr(text) ==
    ReplaceAll(ReplaceAll(ReplaceAll(ReplaceAll(ReplaceAll(text, "&", s_amp), "<", s_lt), ">", s_gt), "\"", s_quot), "'", s_apos)

\* _escape_xml_chars of a value of the question: a value that is not a str is first passed through str()
_escape_xml_chars(v) == EscapeStr(PyStr(v))

\* a successful emitter call and a raised exception
Emitted(xml) == [ok |-> TRUE, xml |-> xml]

Raised(cause) == [ok |-> FALSE, cause |-> cause]

KeyError(key) == [kind |-> "KeyError", key |-> key]

TypeError == [kind |-> "TypeError"]

\* question.get(key, default) rendered by str.format
GetStr(question, key, default) == IF Has(question, key) THEN PyStr(question[key]) ELSE default

\* the first key of keys that question lacks, as a sequence of at most one key
FirstMissing(question, keys) ==
    LET missing == {n \in 1..Len(keys) : ~Has(question, keys[n])}
    IN  IF missing = {} THEN <<>> ELSE <<keys[Min(missing)]>>

\* _format_tf
_format_tf(question) ==
    LET missing == FirstMissing(question, <<s_identifier, s_title, s_prompt, s_correct>>) IN
    IF missing # <<>> THEN Raised(KeyError(missing[1]))
    ELSE Emitted([type |-> s_tf,
                  identifier |-> PyStr(question[s_identifier]),
                  title |-> PyStr(question[s_title]),
                  prompt |-> PyStr(question[s_prompt]),
                  correct_answer |-> Lower(PyStr(question[s_correct]))])

\* question.get('choices', []) as the sequence the loops of _format_mcq iterate over
ChoicesOf(question) ==
    IF Has(question, s_choices) /\ question[s_choices].k = "list" THEN question[s_choices].l ELSE <<>>

\* choice_map.get(id, ''): the escaped text of the last choice whose identifier is id
ChoiceMapGet(choices, id) ==
    LET hits == {n \in 1..Len(choices) : choices[n][s_identifier] = StrV(id)}
    IN  IF hits = {} THEN <<>>
        ELSE LET choice == choices[Max(hits)] IN
             IF Has(choice, s_text) THEN _escape_xml_chars(choice[s_text]) ELSE <<>>

\* choice.get('correct') is truthy
IsCorrect(choice) == Has(choice, s_correct) /\ Truthy(choice[s_correct])

\* the `# Get correct answer` loop of _format_mcq and its default
McqCorrectAnswer(choices) ==
    LET marked == {n \in 1..Len(choices) : IsCorrect(choices[n])}
        correct_answer == IF marked = {} THEN <<>> ELSE choices[Min(marked)][s_identifier].s
    IN  IF correct_answer = <<>> THEN s_A ELSE correct_answer

\* re.search(r'src=["\'](.*?)["\']', img_html): the image source as a sequence
\* of at most one string
ImageSource(img_html) ==
    LET starts == {n \in Occurrences(img_html, s_src_eq) :
                      /\ n + 4 <= Len(img_html)
                      /\ img_html[n + 4] \in QuoteChars
                      /\ \E m \in (n + 5)..Len(img_html) : img_html[m] \in QuoteChars}
    IN  IF starts = {} THEN <<>>
        ELSE LET n == Min(starts)
                 m == Min({x \in (n + 5)..Len(img_html) : img_html[x] \in QuoteChars})
             IN  <<SubSeq(img_html, n + 5, m - 1)>>

\* the question_image value of _format_mcq: no image, or the source of the rebuilt <img> tag
QuestionImage(question) ==
    IF Has(question, s_question_image) /\ Truthy(question[s_question_image])
       /\ question[s_question_image].k = "str"
    THEN ImageSource(question[s_question_image].s)
    ELSE <<>>

\* _format_mcq
_format_mcq(question) ==
    IF Has(question, s_choices) /\ question[s_choices].k # "list" THEN Raised(TypeError)
    ELSE IF Has(question, s_question_image) /\ question[s_question_image].k = "bool"
            /\ question[s_question_image].b
    THEN Raised(TypeError)
    ELSE LET choices == ChoicesOf(question) IN
         Emitted([type |-> s_mcq,
                  identifier |-> GetStr(question, s_identifier, <<>>),
                  title |-> EscapeStr(GetStr(question, s_title, <<>>)),
                  question_text |-> EscapeStr(GetStr(question, s_question_text, <<>>)),
                  question_image |-> QuestionImage(question),
                  prompt |-> EscapeStr(GetStr(question, s_prompt, <<>>)),
                  correct_answer |-> McqCorrectAnswer(choices),
                  choice_a |-> ChoiceMapGet(choices, s_A),
                  choice_b |-> ChoiceMapGet(choices, s_B),
                  choice_c |-> ChoiceMapGet(choices, s_C),
                  choice_d |-> ChoiceMapGet(choices, s_D)])

\* question[key] as a list to iterate over: [ok, l], ok FALSE when the lookup or the iteration raises
ListOf(question, key) ==
    IF ~Has(question, key) THEN [ok |-> FALSE, cause |-> KeyError(key), l |-> <<>>]
    ELSE IF question[key].k = "list" THEN [ok |-> TRUE, cause |-> TypeError, l |-> question[key].l]
    ELSE [ok |-> FALSE, cause |-> TypeError, l |-> <<>>]

\* the identifiers of the choices with a truthy correct, in list order
CorrectIdentifiers(choices) ==
    LET marked == SelectSeq(choices, IsCorrect)
    IN  [n \in 1..Len(marked) |-> PyStr(marked[n][s_identifier])]

\* choice_map.get(id, '') of _format_mrq: the text of the last choice whose identifier is id
MrqChoiceMapGet(choices, id) ==
    LET hits == {n \in 1..Len(choices) : choices[n][s_identifier] = StrV(id)}
    IN  IF hits = {} THEN <<>> ELSE PyStr(choices[Max(hits)][s_text])

\* _format_mrq
_format_mrq(question) ==
    LET list == ListOf(question, s_choices)
        choices == list.l
        missing == FirstMissing(question, <<s_identifier, s_title, s_prompt>>)
    IN  IF ~list.ok THEN Raised(list.cause)
        ELSE IF \E n \in 1..Len(choices) : ~Has(choices[n], s_text) THEN Raised(KeyError(s_text))
        ELSE IF missing # <<>> THEN Raised(KeyError(missing[1]))
        ELSE Emitted([type |-> s_mrq,
                      identifier |-> PyStr(question[s_identifier]),
                      title |-> PyStr(question[s_title]),
                      prompt |-> PyStr(question[s_prompt]),
                      correct_answers |-> CorrectIdentifiers(choices),
                      choice_a |-> MrqChoiceMapGet(choices, s_A),
                      choice_b |-> MrqChoiceMapGet(choices, s_B),
                      choice_c |-> MrqChoiceMapGet(choices, s_C),
                      choice_d |-> MrqChoiceMapGet(choices, s_D),
                      shuffle |-> Lower(GetStr(question, s_shuffle, s_True)),
                      max_choices |-> GetStr(question, s_maxChoices, <<"0">>)])

\* the 0-based positions of the blanks of a fib prompt as _format_fib finds
\* them: the underscores with no alphanumeric character right before or after
BlankPositions(prompt) ==
    {pos \in 0..(Len(prompt) - 1) :
        /\ prompt[pos + 1] = "_"
        /\ ~(pos > 0 /\ IsAlnum(prompt[pos]))
        /\ ~(pos < Len(prompt) - 1 /\ IsAlnum(prompt[pos + 2]))}

\* [pos for pos, char in enumerate(prompt) if char == '*']
AsteriskPositions(prompt) == {pos \in 0..(Len(prompt) - 1) : prompt[pos + 1] = "*"}

\* the elements of a set of numbers in increasing order
RECURSIVE Sorted(_)
Sorted(S) == IF S = {} THEN <<>> ELSE <<Min(S)>> \o Sorted(S \ {Min(S)})

\* the message of the ValueError of the two count checks of _format_fib
BlankCountError(blanks, answers) == [kind |-> "blank_count", blanks |-> blanks, answers |-> answers]

\* question_data.get('correctAnswers', []) as the groups _format_fib
\* enumerates; a str is enumerated character by character
AnswerGroups(question_data) ==
    IF ~Has(question_data, s_correctAnswers) THEN <<>>
    ELSE IF question_data[s_correctAnswers].k = "list" THEN question_data[s_correctAnswers].l
    ELSE [n \in 1..Len(question_data[s_correctAnswers].s) |-> <<<<question_data[s_correctAnswers].s[n]>>>>]

RECURSIVE PromptParts(_, _, _, _, _)
RECURSIVE PromptPartsKeepingBlank(_, _, _, _, _)
\* the split with the text after a blank taken from the blank itself on
PromptPartsKeepingBlank(prompt, positions, n, prev_pos, expected_length) ==
    IF n > Len(positions)
    THEN <<[k |-> "text", s |-> SubSeq(prompt, prev_pos + 1, Len(prompt))]>>
    ELSE <<[k |-> "text", s |-> SubSeq(prompt, prev_pos + 1, positions[n])],
           [k |-> "interaction", responseIdentifier |-> n, expectedLength |-> expected_length]>>
         \o PromptPartsKeepingBlank(prompt, positions, n + 1, positions[n], expected_length)

\* the `# Split the prompt text around the blanks` loop: the text before each
\* blank and the interaction that replaces it, then the text after the last blank
PromptParts(prompt, positions, n, prev_pos, expected_length) ==
    IF n > Len(positions)
    THEN <<[k |-> "text", s |-> SubSeq(prompt, prev_pos + 1, Len(prompt))]>>
    ELSE <<[k |-> "text", s |-> SubSeq(prompt, prev_pos + 1, positions[n])],
           [k |-> "interaction", responseIdentifier |-> n, expectedLength |-> expected_length]>>
         \o PromptParts(prompt, positions, n + 1, positions[n] + 1, expected_length)

\* the 8 hexadecimal digits of the identifier _format_fib makes up are random
FibDefaultIdentifier == <<"f", "i", "b", "_">>

FibDefaultTitle == <<"F", "i", "l", "l", " ", "i", "n", " ", "t", "h", "e", " ", "B", "l", "a", "n", "k", " ", "Q", "u", "e", "s", "t", "i", "o", "n">>

\* _format_fib
_format_fib(question_data) ==
    IF Has(question_data, s_prompt) /\ question_data[s_prompt].k # "str" THEN Raised(TypeError)
    ELSE IF Has(question_data, s_correctAnswers) /\ question_data[s_correctAnswers].k \notin {"list", "str"}
    THEN Raised(TypeError)
    ELSE LET prompt == GetStr(question_data, s_prompt, <<>>)
             correct_answers == AnswerGroups(question_data)
             expected_length == GetStr(question_data, s_expectedLength, <<"2", "0">>)
             found == BlankPositions(prompt)
             blank_positions == IF found = {} THEN AsteriskPositions(prompt) ELSE found
         IN  IF Cardinality(found) # Len(correct_answers)
             THEN Raised(BlankCountError(Cardinality(found), Len(correct_answers)))
             ELSE IF Cardinality(blank_positions) # Len(correct_answers)
             THEN Raised(BlankCountError(Cardinality(blank_positions), Len(correct_answers)))
             ELSE Emitted([type |-> s_fib,
                           identifier |-> GetStr(question_data, s_identifier, FibDefaultIdentifier),
                           title |-> GetStr(question_data, s_title, FibDefaultTitle),
                           response_declarations |->
                               [n \in 1..Len(correct_answers) |->
                                   [identifier |-> n, values |-> correct_answers[n]]],
                           prompt_with_interactions |->
                               PromptParts(prompt, Sorted(blank_positions), 1, 0, expected_length)])

\* the simpleAssociableChoice elements _format_match builds for one set
AssociableChoices(items) ==
    [n \in 1..Len(items) |->
        [identifier |-> PyStr(items[n][s_identifier]),
         matchMax |-> GetStr(items[n], s_matchMax, <<"1">>),
         text |-> PyStr(items[n][s_text])]]

\* _format_match
_format_match(question) ==
    LET pairs == ListOf(question, s_correctPairs)
        missing == FirstMissing(question, <<s_identifier, s_title, s_prompt>>)
    IN  IF ~Has(question, s_matchSets) THEN Raised(KeyError(s_matchSets))
        ELSE IF question[s_matchSets].k # "dict" THEN Raised(TypeError)
        ELSE LET source == question[s_matchSets].d.source
                 target == question[s_matchSets].d.target
             IN  IF \E n \in 1..Len(source) : ~Has(source[n], s_text) THEN Raised(KeyError(s_text))
                 ELSE IF \E n \in 1..Len(target) : ~Has(target[n], s_text) THEN Raised(KeyError(s_text))
                 ELSE IF ~pairs.ok THEN Raised(pairs.cause)
                 ELSE IF missing # <<>> THEN Raised(KeyError(missing[1]))
                 ELSE Emitted([type |-> s_match,
                               identifier |-> PyStr(question[s_identifier]),
                               title |-> PyStr(question[s_title]),
                               prompt |-> PyStr(question[s_prompt]),
                               source_choices |-> AssociableChoices(source),
                               target_choices |-> AssociableChoices(target),
                               correct_pairs |-> pairs.l,
                               shuffle |-> Lower(GetStr(question, s_shuffle, s_True)),
                               max_associations |-> GetStr(question, s_maxAssociations, <<"0">>)])

\* the ValueError _format_order wraps every exception of its body in
OrderError(cause) == [kind |-> "order", inner |-> cause]

\* _format_order
_format_order(question) ==
    LET list == ListOf(question, s_choices)
        choices == list.l
        sequence == ListOf(question, s_correctSequence)
        missing == FirstMissing(question, <<s_identifier, s_title, s_prompt>>)
    IN  IF ~list.ok THEN Raised(OrderError(list.cause))
        ELSE IF \E n \in 1..Len(choices) : ~Has(choices[n], s_text) THEN Raised(OrderError(KeyError(s_text)))
        ELSE IF ~Has(question, s_correctSequence) THEN Raised(OrderError(KeyError(s_correctSequence)))
        ELSE IF question[s_correctSequence].k = "bool" THEN Raised(OrderError(TypeError))
        ELSE IF missing # <<>> THEN Raised(OrderError(KeyError(missing[1])))
        ELSE Emitted([type |-> s_order,
                      identifier |-> PyStr(question[s_identifier]),
                      title |-> PyStr(question[s_title]),
                      prompt |-> PyStr(question[s_prompt]),
                      choices |-> [n \in 1..Len(choices) |->
                                      [identifier |-> PyStr(choices[n][s_identifier]),
                                       text |-> PyStr(choices[n][s_text])]],
                      correct_sequence |->
                          IF question[s_correctSequence].k = "list"
                          THEN question[s_correctSequence].l
                          ELSE [n \in 1..Len(question[s_correctSequence].s) |->
                                   <<question[s_correctSequence].s[n]>>],
                      shuffle |-> Lower(GetStr(question, s_shuffle, s_True))])

\* _format_essay
_format_essay(question) ==
    LET missing == FirstMissing(question, <<s_identifier, s_title, s_prompt, s_expectedLines>>) IN
    IF missing # <<>> THEN Raised(KeyError(missing[1]))
    ELSE Emitted([type |-> s_essay,
                  identifier |-> PyStr(question[s_identifier]),
                  title |-> PyStr(question[s_title]),
                  prompt |-> PyStr(question[s_prompt]),
                  expected_lines |-> PyStr(question[s_expectedLines]),
                  format_attr |-> IF Has(question, s_responseFormat)
                                  THEN <<PyStr(question[s_responseFormat])>>
                                  ELSE <<>>])

\* the ValueError _format_question wraps every exception of an emitter in:
\* it names question.get('identifier', 'unknown') and the type
FormatError(question, type, cause) ==
    [kind |-> "format",
     identifier |-> GetStr(question, s_identifier, s_unknown),
     type |-> type,
     inner |-> cause]

\* _format_question: the emitter of the template's type, its exceptions wrapped
_format_question(question, type) ==
    LET out == IF type = s_fib THEN _format_fib(question)
               ELSE IF type = s_mcq THEN _format_mcq(question)
               ELSE IF type = s_mrq THEN _format_mrq(question)
               ELSE IF type = s_tf THEN _format_tf(question)
               ELSE IF type = s_match THEN _format_match(question)
               ELSE IF type = s_order THEN _format_order(question)
               ELSE IF type = s_essay THEN _format_essay(question)
               ELSE Raised([kind |-> "not_implemented", type |-> type])
    IN  IF out.ok THEN out ELSE Raised(FormatError(question, type, out.cause))

\* text is well-formed XML character data: no `<`, and every `&` starts one
\* of the five predefined entities (minidom.parseString rejects the rest)
WellFormedText(text) ==
    \A n \in 1..Len(text) :
        /\ text[n] # "<"
        /\ text[n] = "&" =>
              \E entity \in {s_amp, s_lt, s_gt, s_quot, s_apos} : StartsWith(From(text, n - 1), entity)

\* text is well-formed inside a double-quoted attribute value
WellFormedAttribute(text) == WellFormedText(text) /\ ~HasChar(text, "\"")

\* the strings of the question that an emitted XML string holds as character data
XmlTexts(xml) ==
    IF xml.type = s_fib
    THEN {xml.identifier, xml.title}
         \cup UNION {Range(xml.response_declarations[n].values) : n \in 1..Len(xml.response_declarations)}
         \cup {xml.prompt_with_interactions[n].s :
                  n \in {m \in 1..Len(xml.prompt_with_interactions) : xml.prompt_with_interactions[m].k = "text"}}
    ELSE IF xml.type = s_mcq
    THEN {xml.identifier, xml.title, xml.question_text, xml.prompt, xml.correct_answer,
          xml.choice_a, xml.choice_b, xml.choice_c, xml.choice_d}
    ELSE IF xml.type = s_mrq
    THEN {xml.identifier, xml.title, xml.prompt, xml.choice_a, xml.choice_b, xml.choice_c,
          xml.choice_d, xml.shuffle, xml.max_choices} \cup Range(xml.correct_answers)
    ELSE IF xml.type = s_tf
    THEN {xml.identifier, xml.title, xml.prompt, xml.correct_answer}
    ELSE IF xml.type = s_match
    THEN {xml.identifier, xml.title, xml.prompt, xml.shuffle, xml.max_associations}
         \cup {xml.source_choices[n].text : n \in 1..Len(xml.source_choices)}
         \cup {xml.target_choices[n].text : n \in 1..Len(xml.target_choices)}
         \cup {xml.correct_pairs[n][1] \o <<" ">> \o xml.correct_pairs[n][2] : n \in 1..Len(xml.correct_pairs)}
    ELSE IF xml.type = s_order
    THEN {xml.identifier, xml.title, xml.prompt, xml.shuffle}
         \cup {xml.choices[n].text : n \in 1..Len(xml.choices)}
         \cup Range(xml.correct_sequence)
    ELSE {xml.identifier, xml.title, xml.prompt, xml.expected_lines}

\* the strings of the question that the emitter itself puts in attribute values
XmlAttributes(xml) ==
    IF xml.type = s_fib
    THEN {xml.prompt_with_interactions[n].expectedLength :
             n \in {m \in 1..Len(xml.prompt_with_interactions) : xml.prompt_with_interactions[m].k = "interaction"}}
    ELSE IF xml.type = s_mcq
    THEN Range(xml.question_image)
    ELSE IF xml.type = s_match
    THEN {xml.source_choices[n].identifier : n \in 1..Len(xml.source_choices)}
         \cup {xml.source_choices[n].matchMax : n \in 1..Len(xml.source_choices)}
         \cup {xml.target_choices[n].identifier : n \in 1..Len(xml.target_choices)}
         \cup {xml.target_choices[n].matchMax : n \in 1..Len(xml.target_choices)}
    ELSE IF xml.type = s_order
    THEN {xml.choices[n].identifier : n \in 1..Len(xml.choices)}
    ELSE IF xml.type = s_essay
    THEN Range(xml.format_attr)
    ELSE {}

\* _prettify: minidom.parseString accepts the XML string; the re-indented
\* string it returns holds the same elements and values
_prettify(xml) ==
    /\ \A text \in XmlTexts(xml) : WellFormedText(text)
    /\ \A text \in XmlAttributes(xml) : WellFormedAttribute(text)

(***************************************************************************)
(* convert: the body of `for question in questions:` for one question.      *)
(* The outcome is the XML string appended to xml_questions, or the message  *)
(* passed to st.error.                                                      *)
(***************************************************************************)
\* the message of st.error: it names question.get('identifier', 'unknown') and the cause
ConvertError(question, cause) ==
    [ok |-> FALSE, identifier |-> GetStr(question, s_identifier, s_unknown), cause |-> cause]

ConvertQuestion(question, loaded) ==
    IF ~Has(question, s_type) \/ ~Truthy(question[s_type])
    THEN ConvertError(question, [kind |-> "missing_type"])
    ELSE IF question[s_type].k # "str" \/ question[s_type].s \notin loaded
    THEN ConvertError(question, [kind |-> "template_not_found", type |-> PyStr(question[s_type])])
    ELSE LET out == _format_question(question, question[s_type].s) IN
         IF ~out.ok THEN ConvertError(question, out.cause)
         ELSE IF ~_prettify(out.xml) THEN ConvertError(question, [kind |-> "not_well_formed"])
         ELSE out

(***************************************************************************)
(* The validators.  The validation rules are read from                      *)
(* templates/metadata.yaml; the values below are the ones the documented    *)
(* contract of the validators gives.  A validator returns, or raises the    *)
(* error `cause`.                                                           *)
(***************************************************************************)
\* common_settings.required_attributes
required_attributes == <<s_identifier, s_title, s_adaptive, s_timeDependent, s_prompt>>

\* common_settings.attribute_types
attribute_types ==
    [key \in Range(required_attributes) |->
        IF key \in {s_adaptive, s_timeDependent} THEN "boolean" ELSE "string"]

\* validation_rules.min_choices of mcq and mrq
min_choices == 4

\* validation_rules.choices_format of mcq and mrq
choice_required_fields == <<s_identifier, s_text, s_correct>>

choice_field_types == [key \in Range(choice_required_fields) |-> IF key = s_correct THEN "boolean" ELSE "string"]

\* validation_rules.expectedLength of fib
expectedLength_min == 1

expectedLength_max == 500

\* validation_rules.min_pairs and matchSets_format of match
min_pairs == 2

match_required_fields == <<s_identifier, s_text>>

\* validation_rules of order
order_min_choices == 2

order_max_choices == 10

order_required_fields == <<s_identifier, s_text>>

\* validation_rules of essay
expectedLines_min == 1

expectedLines_max == 100

responseFormat_allowed == {<<"p", "l", "a", "i", "n">>, <<"x", "h", "t", "m", "l">>}

Valid == [ok |-> TRUE]

\* a ValueError whose message names the field or rule, and the question identifier when named is TRUE
Invalid(kind, field, named, question) ==
    [ok |-> FALSE, kind |-> kind, field |-> field,
     identifier |-> IF named THEN <<GetStr(question, s_identifier, s_unknown)>> ELSE <<>>]

\* isinstance(value, bool) for "boolean", isinstance(value, str) for "string"
HasType(v, expected_type) ==
    CASE expected_type = "boolean" -> v.k = "bool"
      [] expected_type = "string" -> v.k = "str"
      [] expected_type = "integer" -> v.k \in {"int", "bool"}
      [] OTHER -> TRUE

\* the first (n, field) of items at which `check` fails, in the order of the nested loops
FirstBad(items, fields, Bad(_, _)) ==
    LET bad == {x \in (1..Len(items)) \X (1..Len(fields)) : Bad(items[x[1]], fields[x[2]])}
    IN  IF bad = {} THEN <<>>
        ELSE <<CHOOSE x \in bad : \A y \in bad : x[1] < y[1] \/ (x[1] = y[1] /\ x[2] <= y[2])>>

\* _validate_common
_validate_common(question) ==
    LET image_mcq == TypeIs(question, s_mcq) /\ Has(question, s_question_image)
        required == IF image_mcq
                    THEN SelectSeq(required_attributes, LAMBDA a : a # s_prompt \/ Has(question, s_prompt))
                    ELSE required_attributes
        bad == {n \in 1..Len(required) :
                   \/ ~Has(question, required[n])
                   \/ ~HasType(question[required[n]], attribute_types[required[n]])}
    IN  IF image_mcq /\ ~Has(question, s_prompt) /\ ~Has(question, s_question_text)
        THEN Invalid("prompt_or_question_text", s_prompt, TRUE, question)
        ELSE IF bad = {} THEN Valid
        ELSE LET attr == required[Min(bad)] IN
             IF ~Has(question, attr)
             THEN Invalid("missing_attribute", attr, FALSE, question)
             ELSE Invalid("attribute_type", attr, FALSE, question)

\* sum(1 for c in choices if c.get('correct'))
CorrectCount(choices) == Cardinality({n \in 1..Len(choices) : IsCorrect(choices[n])})

\* _validate_choices
_validate_choices(question, question_type) ==
    IF ~Has(question, s_choices) THEN Invalid("missing", s_choices, TRUE, question)
    ELSE IF question[s_choices].k # "list" THEN Invalid("TypeError", s_choices, FALSE, question)
    ELSE LET choices == question[s_choices].l
             bad == FirstBad(choices, choice_required_fields,
                             LAMBDA c, f : ~Has(c, f) \/ ~HasType(c[f], choice_field_types[f]))
         IN  IF Len(choices) < min_choices THEN Invalid("min_choices", s_choices, TRUE, question)
             ELSE IF bad # <<>> /\ ~Has(choices[bad[1][1]], choice_required_fields[bad[1][2]])
             THEN Invalid("choice_missing_field", choice_required_fields[bad[1][2]], TRUE, question)
             ELSE IF bad # <<>>
             THEN Invalid("choice_field_type", choice_required_fields[bad[1][2]], TRUE, question)
             ELSE IF \E n \in 1..Len(choices) : Has(choices[n], s_image) /\ choices[n][s_image].k # "str"
             THEN Invalid("choice_image", s_image, TRUE, question)
             ELSE IF question_type = s_mcq /\ CorrectCount(choices) # 1
             THEN Invalid("exactly_one_correct", s_correct, TRUE, question)
             ELSE IF question_type = s_mrq /\ CorrectCount(choices) = 0
             THEN Invalid("at_least_one_correct", s_correct, TRUE, question)
             ELSE IF Has(question, s_question_image) /\ question[s_question_image].k # "str"
             THEN Invalid("question_image", s_question_image, TRUE, question)
             ELSE Valid

\* len(re.findall(r'_+', prompt)): the number of maximal runs of underscores
UnderscoreRuns(prompt) ==
    Cardinality({n \in 1..Len(prompt) : prompt[n] = "_" /\ (n = 1 \/ prompt[n - 1] # "_")})

\* the `# Validate expectedLength` part of _validate_fib: every failure,
\* the range check included, ends in the `must be an integer` error
ExpectedLengthOk(v) ==
    LET is_int == v.k \in {"int", "bool"} \/ (v.k = "str" /\ IsInt(v.s))
        length == IF v.k = "int" THEN v.n
                  ELSE IF v.k = "bool" THEN (IF v.b THEN 1 ELSE 0)
                  ELSE ToInt(v.s)
    IN  is_int /\ expectedLength_min <= length /\ length <= expectedLength_max

\* _validate_fib
_validate_fib(question) ==
    IF ~Has(question, s_prompt) THEN Invalid("KeyError", s_prompt, FALSE, question)
    ELSE IF question[s_prompt].k # "str" THEN Invalid("TypeError", s_prompt, FALSE, question)
    ELSE IF ~HasChar(question[s_prompt].s, "_") THEN Invalid("no_blank", s_prompt, TRUE, question)
    ELSE IF ~Has(question, s_correctAnswers) THEN Invalid("missing", s_correctAnswers, TRUE, question)
    ELSE LET answers == question[s_correctAnswers]
             num_blanks == UnderscoreRuns(question[s_prompt].s)
         IN  IF answers.k # "list" \/ Len(answers.l) # num_blanks
             THEN Invalid("answer_count", s_correctAnswers, TRUE, question)
                      @@ [answers |-> IF answers.k = "list" THEN Len(answers.l) ELSE 0, blanks |-> num_blanks]
             ELSE IF \E n \in 1..Len(answers.l) : answers.l[n] = <<>>
             THEN Invalid("empty_answer_set", s_correctAnswers, TRUE, question)
             ELSE IF Has(question, s_expectedLength) /\ ~ExpectedLengthOk(question[s_expectedLength])
             THEN Invalid("expectedLength", s_expectedLength, TRUE, question)
             ELSE Valid

\* the `# Special handling for dashes in answer sets` loop of _validate_fib,
\* which rewrites the answers of the question it was given
NormalizedAnswers(answers) ==
    [n \in 1..Len(answers) |->
        [m \in 1..Len(answers[n]) |->
            IF answers[n][m] = <<"-", "-", "-">> THEN <<"-">> ELSE answers[n][m]]]

\* _validate_match
_validate_match(question) ==
    IF ~Has(question, s_matchSets) THEN Invalid("missing", s_matchSets, TRUE, question)
    ELSE IF question[s_matchSets].k # "dict" THEN Invalid("TypeError", s_matchSets, FALSE, question)
    ELSE LET source == question[s_matchSets].d.source
             target == question[s_matchSets].d.target
             BadItem(items) ==
                 FirstBad(items, match_required_fields,
                          LAMBDA c, f : ~Has(c, f) \/ ~HasType(c[f], "string"))
         IN  IF Len(source) < min_pairs THEN Invalid("min_items", s_source, TRUE, question)
             ELSE IF BadItem(source) # <<>>
             THEN Invalid("item_format", match_required_fields[BadItem(source)[1][2]], TRUE, question)
             ELSE IF Len(target) < min_pairs THEN Invalid("min_items", s_target, TRUE, question)
             ELSE IF BadItem(target) # <<>>
             THEN Invalid("item_format", match_required_fields[BadItem(target)[1][2]], TRUE, question)
             ELSE IF ~Has(question, s_correctPairs) THEN Invalid("missing", s_correctPairs, TRUE, question)
             ELSE IF question[s_correctPairs].k # "list" THEN Invalid("TypeError", s_correctPairs, FALSE, question)
             ELSE LET pairs == question[s_correctPairs].l
                      source_ids == {source[n][s_identifier].s : n \in 1..Len(source)}
                      target_ids == {target[n][s_identifier].s : n \in 1..Len(target)}
                  IN  IF Len(pairs) < min_pairs THEN Invalid("min_pairs", s_correctPairs, TRUE, question)
                      ELSE IF \E n \in 1..Len(pairs) : Len(pairs[n]) # 2
                      THEN Invalid("pair_length", s_correctPairs, TRUE, question)
                      ELSE IF \E n \in 1..Len(pairs) : pairs[n][1] \notin source_ids
                      THEN Invalid("pair_source", s_correctPairs, TRUE, question)
                      ELSE IF \E n \in 1..Len(pairs) : pairs[n][2] \notin target_ids
                      THEN Invalid("pair_target", s_correctPairs, TRUE, question)
                      ELSE Valid

\* the items len() counts and a for loop visits: the elements of a list, the
\* characters of a str
ItemsOf(value) ==
    IF value.k = "list" THEN value.l ELSE [n \in 1..Len(value.s) |-> <<value.s[n]>>]

\* the check of correctSequence without the check for duplicates
OrderSequenceCheckNoDuplicates(question, choices) ==
    LET choice_ids == {choices[n][s_identifier].s : n \in 1..Len(choices)} IN
    IF ~Has(question, s_correctSequence)
    THEN Invalid("missing", s_correctSequence, TRUE, question)
    ELSE IF question[s_correctSequence].k \notin {"list", "str"}
    THEN Invalid("TypeError", s_correctSequence, FALSE, question)
    ELSE LET sequence == ItemsOf(question[s_correctSequence]) IN
         IF Len(sequence) # Len(choices)
         THEN Invalid("sequence_length", s_correctSequence, TRUE, question)
         ELSE IF \E n \in 1..Len(sequence) : sequence[n] \notin choice_ids
         THEN Invalid("sequence_reference", s_correctSequence, TRUE, question)
         ELSE Valid

\* the `# Validate correctSequence` part of _validate_order
OrderSequenceCheck(question, choices) ==
    LET choice_ids == {choices[n][s_identifier].s : n \in 1..Len(choices)} IN
    IF ~Has(question, s_correctSequence)
    THEN Invalid("missing", s_correctSequence, TRUE, question)
    ELSE IF question[s_correctSequence].k \notin {"list", "str"}
    THEN Invalid("TypeError", s_correctSequence, FALSE, question)
    ELSE LET sequence == ItemsOf(question[s_correctSequence]) IN
         IF Len(sequence) # Len(choices)
         THEN Invalid("sequence_length", s_correctSequence, TRUE, question)
         ELSE IF \E n \in 1..Len(sequence) : sequence[n] \notin choice_ids
         THEN Invalid("sequence_reference", s_correctSequence, TRUE, question)
         ELSE IF Cardinality(Range(sequence)) # Len(sequence)
         THEN Invalid("sequence_duplicates", s_correctSequence, TRUE, question)
         ELSE Valid

\* _validate_order without its `# Validate correctSequence` part
_validate_order_choices_only(question) ==
    IF ~Has(question, s_choices) THEN Invalid("missing", s_choices, TRUE, question)
    ELSE IF question[s_choices].k # "list" THEN Invalid("TypeError", s_choices, FALSE, question)
    ELSE LET choices == question[s_choices].l
             bad == FirstBad(choices, order_required_fields,
                             LAMBDA c, f : ~Has(c, f) \/ ~HasType(c[f], "string"))
         IN  IF Len(choices) < order_min_choices THEN Invalid("min_choices", s_choices, TRUE, question)
             ELSE IF Len(choices) > order_max_choices THEN Invalid("max_choices", s_choices, TRUE, question)
             ELSE IF bad # <<>> THEN Invalid("choice_format", order_required_fields[bad[1][2]], TRUE, question)
             ELSE Valid

\* _validate_order
_validate_order(question) ==
    IF ~Has(question, s_choices) THEN Invalid("missing", s_choices, TRUE, question)
    ELSE IF question[s_choices].k # "list" THEN Invalid("TypeError", s_choices, FALSE, question)
    ELSE LET choices == question[s_choices].l
             bad == FirstBad(choices, order_required_fields,
                             LAMBDA c, f : ~Has(c, f) \/ ~HasType(c[f], "string"))
         IN  IF Len(choices) < order_min_choices THEN Invalid("min_choices", s_choices, TRUE, question)
             ELSE IF Len(choices) > order_max_choices THEN Invalid("max_choices", s_choices, TRUE, question)
             ELSE IF bad # <<>> THEN Invalid("choice_format", order_required_fields[bad[1][2]], TRUE, question)
             ELSE OrderSequenceCheck(question, choices)

\* _validate_tf
_validate_tf(question) ==
    IF ~Has(question, s_correct) THEN Invalid("missing", s_correct, TRUE, question)
    ELSE IF question[s_correct].k # "bool" THEN Invalid("not_boolean", s_correct, TRUE, question)
    ELSE Valid

\* _validate_essay
_validate_essay(question) ==
    IF ~Has(question, s_expectedLines) THEN Invalid("missing", s_expectedLines, TRUE, question)
    ELSE LET v == question[s_expectedLines]
             is_int == v.k \in {"int", "bool"} \/ (v.k = "str" /\ IsInt(v.s))
             n == IF v.k = "int" THEN v.n ELSE IF v.k = "bool" THEN (IF v.b THEN 1 ELSE 0) ELSE ToInt(v.s)
         IN  IF ~is_int \/ n < expectedLines_min \/ n > expectedLines_max
             THEN Invalid("expectedLines", s_expectedLines, TRUE, question)
             ELSE IF Has(question, s_responseFormat)
                     /\ (question[s_responseFormat].k # "str"
                         \/ question[s_responseFormat].s \notin responseFormat_allowed)
             THEN Invalid("responseFormat", s_responseFormat, TRUE, question)
             ELSE Valid

\* validate_question: the type must have a template, then the common check, then the check of the type
validate_question(question, question_type, loaded) ==
    IF question_type = <<>> THEN Invalid("missing_type", s_type, FALSE, question)
    ELSE IF question_type \notin loaded THEN Invalid("unsupported_type", s_type, FALSE, question)
    ELSE LET common == _validate_common(question) IN
         IF ~common.ok THEN common
         ELSE IF question_type = s_fib THEN _validate_fib(question)
         ELSE IF question_type \in {s_mcq, s_mrq} THEN _validate_choices(question, question_type)
         ELSE IF question_type = s_tf THEN _validate_tf(question)
         ELSE IF question_type = s_match THEN _validate_match(question)
         ELSE IF question_type = s_order THEN _validate_order(question)
         ELSE IF question_type = s_essay THEN _validate_essay(question)
         ELSE Valid

(***************************************************************************)
(* The input texts: question blocks written in the documented format, the   *)
(* fields indented under the `- type:` header.                              *)
(***************************************************************************)
\* the longest batch of blocks in one text
MaxBlocks == 2

\* the largest number of choices of a choice or order question
MaxChoices == 4

\* the largest number of lines under correctAnswers:
MaxAnswerLines == 3

\* the largest number of items of a match set
MaxItems == 2

\* the longest correctSequence given to the order validator
MaxSequence == 3

\* the longest text given to the escaper
MaxText == 3

Spaces(n) == [x \in 1..n |-> " "]

\* the line `key: value` at an indentation
Field(indent, key, value) ==
    Spaces(indent) \o key \o <<":">> \o (IF value = <<>> THEN <<>> ELSE <<" ">> \o value)

\* the line `- text` at an indentation
Item(indent, text) == Spaces(indent) \o s_dash_sp \o text

Header(type) == s_type_header \o (IF type = <<>> THEN <<>> ELSE <<" ">> \o type)

\* the common fields but the prompt
Common(identifier) ==
    <<Field(2, s_identifier, identifier), Field(2, s_title, <<"T">>),
      Field(2, s_adaptive, s_false), Field(2, s_timeDependent, s_false)>>

RECURSIVE Flatten(_)
Flatten(seqs) == IF seqs = <<>> THEN <<>> ELSE Head(seqs) \o Flatten(Tail(seqs))

\* the sequences over S of length lo..hi
SeqsOf(S, lo, hi) == UNION {[1..n -> S] : n \in lo..hi}

Q1 == <<"Q", "1">>

\* ---- true/false blocks
TfPrompts == {<<"P">>, <<"a", "<", "b">>, <<"R", "&", "D">>, s_true, <<"i", "t", "'", "s">>}

CorrectWords == {s_true, s_false, <<"T", "R", "U", "E">>, <<"F", "a", "l", "s", "e">>, <<"y", "e", "s">>, <<>>}

\* a tf block; the correct line is left out when word is empty
TfBlock(prompt, word) ==
    <<Header(s_tf)>> \o Common(Q1) \o <<Field(2, s_prompt, prompt)>>
    \o (IF word = <<>> THEN <<>> ELSE <<Field(2, s_correct, word)>>)

\* a tf block without the line of one of its fields
TfBlockLacking(key, word) ==
    SelectSeq(TfBlock(<<"P">>, word), LAMBDA line : ~StartsWith(line, Field(2, key, <<>>)))

\* ---- triple-quoted text: the lines of the text between the quotes
TripleContents ==
    {<<<<"a", "b">>>>,
     <<<<"i", "t", "'", "s">>>>,
     <<<<"a">>, <<"b">>>>,
     <<<<"x", ":", " ", "y">>, <<"z">>>>}

\* the lines of `key: """content"""`
TripleField(indent, key, content) ==
    LET opened == [content EXCEPT ![1] = Field(indent, key, s_dq3 \o @)]
    IN  [opened EXCEPT ![Len(content)] = @ \o s_dq3]

TfTripleBlock(content) ==
    <<Header(s_tf)>> \o Common(Q1) \o TripleField(2, s_prompt, content) \o <<Field(2, s_correct, s_true)>>

\* ---- choice blocks
IdPool == <<s_A, s_B, s_C, s_D, <<"E">>, <<>>>>

\* n identifiers: the pool read from position r on
PoolIds(n, r) == [x \in 1..n |-> IdPool[((x + r - 1) % Len(IdPool)) + 1]]

\* the lines of one choice
ChoiceLines(identifier, text, correct) ==
    <<Item(4, Field(0, s_identifier, identifier))>>
    \o (IF Len(text) = 1 THEN <<Field(6, s_text, text[1])>> ELSE TripleField(6, s_text, text))
    \o <<Field(6, s_correct, IF correct THEN s_true ELSE s_false)>>

ChoiceBlock(type, ids, corrects) ==
    <<Header(type)>> \o Common(Q1) \o <<Field(2, s_prompt, <<"P">>), Field(2, s_choices, <<>>)>>
    \o Flatten([x \in 1..Len(ids) |-> ChoiceLines(ids[x], <<<<"t">>>>, corrects[x])])

\* an mcq block whose first choice has a triple-quoted text
McqTripleBlock(content) ==
    <<Header(s_mcq)>> \o Common(Q1) \o <<Field(2, s_prompt, <<"P">>), Field(2, s_choices, <<>>)>>
    \o ChoiceLines(s_A, content, TRUE)
    \o Flatten([x \in 1..3 |-> ChoiceLines(IdPool[x + 1], <<<<"t">>>>, FALSE)])

\* ---- fill-in-blank blocks
FibPrompts ==
    {<<"a", " ", "_", " ", "b", " ", "_">>, <<"x", "_", "y", " ", "_">>, <<"2", " ", "*", " ", "3">>, <<"_">>}

\* a group marker with a first answer, an alternative, the two ways of
\* writing a literal dash, a field after the section, a line at column zero
GroupLine(answer) == Item(4, Item(0, answer))

AlternativeLine(answer) == Item(6, answer)

FibLines ==
    {GroupLine(<<"x">>), AlternativeLine(<<"y">>), GroupLine(<<"-">>), AlternativeLine(<<"-">>),
     Field(2, s_expectedLength, <<"5">>), Field(0, <<"n">>, <<"z">>)}

\* a fib block; answer_lines are the lines under correctAnswers:, which is left out when sectioned is FALSE
FibBlock(prompt, sectioned, answer_lines) ==
    <<Header(s_fib)>> \o Common(Q1) \o <<Field(2, s_prompt, prompt)>>
    \o (IF sectioned THEN <<Field(2, s_correctAnswers, <<>>)>> \o answer_lines ELSE <<>>)

\* ---- match blocks
\* the identifiers of the items of a set: the k-th is prefix k, or empty
ItemId(prefix, x, present) == IF present THEN <<prefix>> \o NatStr(x) ELSE <<>>

ItemLines(prefix, present) ==
    Flatten([x \in 1..Len(present) |->
                <<Item(6, Field(0, s_identifier, ItemId(prefix, x, present[x]))),
                  Field(8, s_text, <<"t">>)>>])

MatchSetsLines(source, target) ==
    <<Field(2, s_matchSets, <<>>), Field(4, s_source, <<>>)>> \o ItemLines("S", source)
    \o <<Field(4, s_target, <<>>)>> \o ItemLines("T", target)

\* the lines of a declared pair
PairLines(source_id, target_id) == <<Item(4, Item(0, source_id)), Item(6, target_id)>>

DeclaredPairs == <<Field(2, s_correctPairs, <<>>)>> \o PairLines(<<"S", "1">>, <<"T", "1">>)

\* a match block; pairs is "none", or "before" or "after" for a correctPairs
\* section before or after the matchSets section
MatchBlock(source, target, pairs) ==
    <<Header(s_match)>> \o Common(Q1) \o <<Field(2, s_prompt, <<"P">>)>>
    \o (IF pairs = "before" THEN DeclaredPairs ELSE <<>>)
    \o MatchSetsLines(source, target)
    \o (IF pairs = "after" THEN DeclaredPairs ELSE <<>>)

\* a match block whose matchSets is given a scalar value
ScalarMatchBlock == <<Header(s_match)>> \o Common(Q1) \o <<Field(2, s_prompt, <<"P">>), Field(2, s_matchSets, s_true)>>

\* ---- order blocks
OrderIds == {s_A, s_B, s_C}

SequenceIds == {s_A, s_B, <<"Z">>}

OrderBlock(ids, sequence) ==
    <<Header(s_order)>> \o Common(Q1) \o <<Field(2, s_prompt, <<"P">>), Field(2, s_choices, <<>>)>>
    \o Flatten([x \in 1..Len(ids) |-> <<Item(4, Field(0, s_identifier, ids[x])), Field(6, s_text, <<"t">>)>>])
    \o <<Field(2, s_correctSequence, <<>>)>>
    \o [x \in 1..Len(sequence) |-> Item(4, sequence[x])]

\* ---- essay blocks
EssayBlock ==
    <<Header(s_essay)>> \o Common(Q1) \o <<Field(2, s_prompt, <<"P">>), Field(2, s_expectedLines, <<"5">>)>>

\* ---- a line at column zero after a nested list
ExitModes == {"choices", "matchSets", "correctPairs", "correctSequence", "correctAnswers"}

TopLevelLine == Field(0, <<"n">>, <<"z">>)

\* a block whose last section is the nested list of the mode, followed by a
\* `key: value` line at column zero
ExitBlock(mode) ==
    (CASE mode = "choices" -> ChoiceBlock(s_mcq, <<s_A, s_B>>, <<TRUE, FALSE>>)
       [] mode = "matchSets" -> MatchBlock(<<TRUE>>, <<TRUE>>, "none")
       [] mode = "correctPairs" ->
              <<Header(s_match)>> \o Common(Q1) \o <<Field(2, s_prompt, <<"P">>)>> \o DeclaredPairs
       [] mode = "correctSequence" -> OrderBlock(<<s_A, s_B>>, <<s_B, s_A>>)
       [] mode = "correctAnswers" -> FibBlock(<<"_">>, TRUE, <<GroupLine(<<"x">>)>>))
    \o <<TopLevelLine>>

\* ---- text before the first header line
Preambles == {<<<<>>>>, <<<<"#", " ", "q", "u", "i", "z">>>>, <<TopLevelLine>>, <<<<" ">>, <<"q", "u", "i", "z">>>>}

\* ---- empty and whitespace-only texts
BlankTexts == {<<>>, <<<<>>>>, <<<<" ">>>>, <<<<>>, <<" ", " ">>>>, <<<<"\t">>, <<>>, <<>>>>}

\* ---- a block whose header names no type
UntypedBlock == <<Header(<<>>)>> \o Common(Q1)

\* the blocks of the batches: blocks that convert, and one block for each
\* way a block can fail
BatchBlocks ==
    <<TfBlock(<<"P">>, s_true),
      TfBlock(<<"a", "<", "b">>, s_true),
      TfBlock(<<"P">>, <<>>),
      EssayBlock,
      ScalarMatchBlock,
      UntypedBlock,
      FibBlock(<<"_">>, TRUE, <<GroupLine(<<"x">>)>>),
      TfBlockLacking(s_identifier, <<>>)>>

AllTypes == {s_fib, s_mcq, s_mrq, s_tf, s_match, s_order, s_essay}

\* the descriptions of the input texts
Inputs ==
    [family : {"batch"}, blocks : SeqsOf(1..Len(BatchBlocks), 0, MaxBlocks)]
    \cup [family : {"tf"}, prompt : TfPrompts, word : CorrectWords]
    \cup [family : {"tf_triple", "mcq_triple"}, content : TripleContents]
    \cup [family : {"choice"}, type : {s_mcq, s_mrq}, r : 0..(Len(IdPool) - 1),
          corrects : SeqsOf(BOOLEAN, 3, MaxChoices)]
    \cup [family : {"fib"}, prompt : FibPrompts, sectioned : BOOLEAN, answer_lines : SeqsOf(FibLines, 0, MaxAnswerLines)]
    \cup [family : {"match"}, source : SeqsOf(BOOLEAN, 0, MaxItems), target : SeqsOf(BOOLEAN, 0, MaxItems),
          pairs : {"none", "before", "after"}]
    \cup [family : {"order"}, ids : SeqsOf(OrderIds, 2, 2), sequence : SeqsOf(SequenceIds, 0, 2)]
    \cup [family : {"exit"}, mode : ExitModes]
    \cup [family : {"preamble"}, preamble : Preambles, blocks : SeqsOf({1, 3}, 0, MaxBlocks)]
    \cup [family : {"blank"}, text : BlankTexts]

\* an input description is kept when it does not repeat another one
Distinct(inp) == inp.family = "fib" => (inp.sectioned \/ inp.answer_lines = <<>>)

\* the text an input description stands for, as its sequence of lines
TextOf(inp) ==
    CASE inp.family = "batch" -> Flatten([x \in 1..Len(inp.blocks) |-> BatchBlocks[inp.blocks[x]]])
      [] inp.family = "tf" -> TfBlock(inp.prompt, inp.word)
      [] inp.family = "tf_triple" -> TfTripleBlock(inp.content)
      [] inp.family = "mcq_triple" -> McqTripleBlock(inp.content)
      [] inp.family = "choice" -> ChoiceBlock(inp.type, PoolIds(Len(inp.corrects), inp.r), inp.corrects)
      [] inp.family = "fib" -> FibBlock(inp.prompt, inp.sectioned, inp.answer_lines)
      [] inp.family = "match" -> MatchBlock(inp.source, inp.target, inp.pairs)
      [] inp.family = "order" -> OrderBlock(inp.ids, inp.sequence)
      [] inp.family = "exit" -> ExitBlock(inp.mode)
      [] inp.family = "preamble" ->
             inp.preamble \o Flatten([x \in 1..Len(inp.blocks) |-> BatchBlocks[inp.blocks[x]]])
      [] inp.family = "blank" -> inp.text
      [] inp.family = "tf_lacking" -> TfBlockLacking(inp.key, inp.word)

(***************************************************************************)
(* convert, as a state machine: the text is split into blocks, the blocks   *)
(* are scanned line by line, then the questions are converted one by one.   *)
(***************************************************************************)
VARIABLES
    input,            \* the description of the text given to convert
    yaml_str,         \* the argument of convert, as its sequence of lines
    templates,        \* the keys of self.templates: the types whose template file was found
    pc,               \* "blocks": at `for block in question_blocks`; "scan": in the while loop;
                      \* "convert": at `for question in questions`; "done": convert has ended
    question_blocks,  \* the blocks not processed yet
    lines,            \* the lines of the block being scanned
    p,                \* the locals of the scan
    questions,        \* the question dicts parsed so far
    qi,               \* the position in questions of the next question to convert
    xml_questions,    \* the XML strings collected so far
    errors,           \* the messages passed to st.error so far
    result,           \* how convert ended: "returned" or "raised" (the ValueError of the outer handler)
    verdict           \* the outcome of a call of a validator on questions[1], and the validator called

vars == <<input, yaml_str, templates, pc, question_blocks, lines, p, questions, qi, xml_questions, errors, result, verdict>>

\* the template sets: every template file found, or the essay template missing
TemplateSets == {AllTypes, AllTypes \ {s_essay}}

Init ==
    /\ input \in {inp \in Inputs : Distinct(inp)}
    /\ yaml_str = TextOf(input)
    /\ templates \in IF input.family = "batch" THEN TemplateSets ELSE {AllTypes}
    /\ pc = "blocks"
    /\ question_blocks = QuestionBlocks(yaml_str)
    /\ lines = <<>>
    /\ p = ParserStart(<<<<>>>>)
    /\ questions = <<>>
    /\ qi = 1
    /\ xml_questions = <<>>
    /\ errors = <<>>
    /\ result = "none"
    /\ verdict = [by |-> "none"]

\* `for block in question_blocks:` takes the next block and sets the locals of the scan
NextBlock ==
    /\ pc = "blocks"
    /\ question_blocks # <<>>
    /\ lines' = Head(question_blocks)
    /\ question_blocks' = Tail(question_blocks)
    /\ p' = ParserStart(Head(question_blocks))
    /\ pc' = "scan"
    /\ UNCHANGED <<input, yaml_str, templates, questions, qi, xml_questions, errors, result, verdict>>

\* one iteration of the while loop
ScanLine ==
    /\ pc = "scan"
    /\ p.i < Len(lines)
    /\ p' = ParseLine(p, lines)
    /\ UNCHANGED <<input, yaml_str, templates, pc, question_blocks, lines, questions, qi, xml_questions, errors, result, verdict>>

\* the code after the while loop, and questions.append(question_dict)
EndBlock ==
    /\ pc = "scan"
    /\ p.i >= Len(lines)
    /\ ~ParseEnd(p).raised
    /\ questions' = Append(questions, ParseEnd(p).question)
    /\ pc' = "blocks"
    /\ UNCHANGED <<input, yaml_str, templates, question_blocks, lines, p, qi, xml_questions, errors, result, verdict>>

\* the code after the while loop raises: the outer handler of convert turns
\* the exception into ValueError("Invalid YAML format: ...")
ParseRaises ==
    /\ pc = "scan"
    /\ p.i >= Len(lines)
    /\ ParseEnd(p).raised
    /\ result' = "raised"
    /\ pc' = "done"
    /\ UNCHANGED <<input, yaml_str, templates, question_blocks, lines, p, questions, qi, xml_questions, errors, verdict>>

\* _custom_yaml_parse returns; xml_questions = []
Parsed ==
    /\ pc = "blocks"
    /\ question_blocks = <<>>
    /\ pc' = "convert"
    /\ UNCHANGED <<input, yaml_str, templates, question_blocks, lines, p, questions, qi, xml_questions, errors, result, verdict>>

\* an iteration of `for question in questions:` that appends an XML string
ConvertOk ==
    /\ pc = "convert"
    /\ qi <= Len(questions)
    /\ ConvertQuestion(questions[qi], templates).ok
    /\ xml_questions' = Append(xml_questions, ConvertQuestion(questions[qi], templates).xml)
    /\ qi' = qi + 1
    /\ UNCHANGED <<input, yaml_str, templates, pc, question_blocks, lines, p, questions, errors, result, verdict>>

\* a failing question ends convert: the exception leaves the loop
ConvertFailsAborting ==
    /\ pc = "convert"
    /\ qi <= Len(questions)
    /\ ~ConvertQuestion(questions[qi], templates).ok
    /\ result' = "raised"
    /\ pc' = "done"
    /\ UNCHANGED <<input, yaml_str, templates, question_blocks, lines, p, questions, qi, xml_questions, errors, verdict>>

\* an iteration that ends in the handler: st.error(...) and continue
ConvertFails ==
    /\ pc = "convert"
    /\ qi <= Len(questions)
    /\ ~ConvertQuestion(questions[qi], templates).ok
    /\ errors' = Append(errors, ConvertQuestion(questions[qi], templates))
    /\ qi' = qi + 1
    /\ UNCHANGED <<input, yaml_str, templates, pc, question_blocks, lines, p, questions, xml_questions, result, verdict>>

\* return xml_questions
Return ==
    /\ pc = "convert"
    /\ qi > Len(questions)
    /\ result' = "returned"
    /\ pc' = "done"
    /\ UNCHANGED <<input, yaml_str, templates, question_blocks, lines, p, questions, qi, xml_questions, errors, verdict>>

Next ==
    \/ NextBlock
    \/ ScanLine
    \/ EndBlock
    \/ ParseRaises
    \/ Parsed
    \/ ConvertOk
    \/ ConvertFails
    \/ Return

Spec == Init /\ [][Next]_vars

(***************************************************************************)
(* The validators, called on a parsed question.  convert does not call      *)
(* them; they are applied here to the question parsed from an order block.  *)
(***************************************************************************)
\* the blocks given to the validators: order blocks, and tf blocks that lack
\* one field (the key `unknown` stands for no field lacking)
ValidatorInputs ==
    [family : {"order"}, ids : SeqsOf({s_A, s_B}, 1, MaxSequence), sequence : SeqsOf(SequenceIds, 0, MaxSequence)]
    \cup [family : {"tf_lacking"}, key : {s_identifier, s_title, s_adaptive, s_prompt, s_unknown},
          word : {s_true, <<"y", "e", "s">>, <<>>}]

InitValidate ==
    /\ input \in ValidatorInputs
    /\ yaml_str = TextOf(input)
    /\ templates = AllTypes
    /\ pc = "validate"
    /\ question_blocks = <<>>
    /\ lines = <<>>
    /\ p = ParserStart(<<<<>>>>)
    /\ questions = [n \in 1..Len(QuestionBlocks(yaml_str)) |-> ParseBlock(QuestionBlocks(yaml_str)[n]).question]
    /\ qi = 1
    /\ xml_questions = <<>>
    /\ errors = <<>>
    /\ result = "none"
    /\ verdict = [by |-> "none"]

\* _validate_order(question)
ValidateOrder ==
    /\ pc = "validate"
    /\ TypeIs(questions[1], s_order)
    /\ verdict' = [by |-> "_validate_order", outcome |-> _validate_order(questions[1])]
    /\ pc' = "validated"
    /\ UNCHANGED <<input, yaml_str, templates, question_blocks, lines, p, questions, qi, xml_questions, errors, result>>

\* validate_question(question, question['type'])
ValidateQuestion ==
    /\ pc = "validate"
    /\ verdict' = [by |-> "validate_question",
                   outcome |-> validate_question(questions[1], PyStr(questions[1][s_type]), templates)]
    /\ pc' = "validated"
    /\ UNCHANGED <<input, yaml_str, templates, question_blocks, lines, p, questions, qi, xml_questions, errors, result>>

NextValidate == ValidateOrder \/ ValidateQuestion

SpecValidate == InitValidate /\ [][NextValidate]_vars

(***************************************************************************)
(* _escape_xml_chars, called on a text                                       *)
(***************************************************************************)
\* the characters of the texts: the five special characters, a letter and
\* the character that ends an entity
EscapeChars == {"&", "<", ">", "\"", "'", "a", ";"}

EscapeInputs == [family : {"escape"}, text : SeqsOf(EscapeChars, 0, MaxText)]

InitEscape ==
    /\ input \in EscapeInputs
    /\ yaml_str = <<>>
    /\ templates = AllTypes
    /\ pc = "escape"
    /\ question_blocks = <<>>
    /\ lines = <<>>
    /\ p = ParserStart(<<<<>>>>)
    /\ questions = <<>>
    /\ qi = 1
    /\ xml_questions = <<>>
    /\ errors = <<>>
    /\ result = "none"
    /\ verdict = [by |-> "none"]

\* _escape_xml_chars(text)
Escape ==
    /\ pc = "escape"
    /\ verdict' = [by |-> "_escape_xml_chars", outcome |-> _escape_xml_chars(StrV(input.text))]
    /\ pc' = "escaped"
    /\ UNCHANGED <<input, yaml_str, templates, question_blocks, lines, p, questions, qi, xml_questions, errors, result>>

NextEscape == Escape

SpecEscape == InitEscape /\ [][NextEscape]_vars
(***************************************************************************)
(* The properties                                                           *)
(***************************************************************************)
\* C1: when exactly one block of a batch of N blocks fails (at parsing,
\* template lookup, formatting or prettifying), convert does not raise: it
\* returns the XML of the N-1 other blocks and reports one error.
C1_OneFailingBlockIsIsolated ==
    (pc = "done" /\ input.family = "batch") =>
        LET N == Len(input.blocks)
            failing == {x \in 1..N :
                           LET parsed == ParseBlock(BlockLines(BatchBlocks[input.blocks[x]]))
                           IN  parsed.raised \/ ~ConvertQuestion(parsed.question, templates).ok}
        IN  Cardinality(failing) = 1 =>
                /\ result = "returned"
                /\ Len(xml_questions) = N - 1
                /\ Len(errors) = 1

\* C2: every block is checked by the validator of its type after the parser
\* and before its emitter: a block for which XML was emitted is a block
\* validate_question accepts.
C2_EmittedBlocksAreValid ==
    (pc = "done" /\ result = "returned" /\ Len(questions) = 1 /\ xml_questions # <<>>) =>
        /\ Has(questions[1], s_type)
        /\ validate_question(questions[1], PyStr(questions[1][s_type]), templates).ok

\* C3: a valid mcq block with at least four choices, exactly one of them
\* marked correct, yields XML whose correct response is the identifier of that
\* choice, whatever the identifier is.
C3_McqCorrectResponse ==
    (/\ pc = "done"
     /\ input.family = "choice"
     /\ input.type = s_mcq
     /\ Len(input.corrects) >= 4
     /\ Cardinality({x \in 1..Len(input.corrects) : input.corrects[x]}) = 1
     /\ validate_question(questions[1], s_mcq, templates).ok) =>
        LET marked == CHOOSE x \in 1..Len(input.corrects) : input.corrects[x]
        IN  /\ Len(xml_questions) = 1
            /\ xml_questions[1].correct_answer = PoolIds(Len(input.corrects), input.r)[marked]

\* C4: a fib block whose number of standalone blank markers differs from its
\* number of answer groups is rejected with an error that names the question
\* identifier and both counts; a block whose counts are equal is not rejected
\* for a count mismatch.
C4_FibBlankCountChecked ==
    (pc = "done" /\ input.family = "fib") =>
        LET markers == Cardinality(BlankPositions(input.prompt))
            groups == Len(AnswerGroups(questions[1]))
            mismatches == {e \in 1..Len(errors) :
                              /\ errors[e].cause.kind = "format"
                              /\ errors[e].cause.inner.kind = "blank_count"}
        IN  /\ markers # groups =>
                /\ xml_questions = <<>>
                /\ Len(errors) = 1
                /\ errors[1].identifier = Q1
                /\ errors[1].cause.kind = "format"
                /\ errors[1].cause.inner = BlankCountError(markers, groups)
            /\ markers = groups => mismatches = {}

\* C5: under correctAnswers, a literal dash written as the first answer of a
\* group (`- - -`) or as an indented alternative (`- -`) is stored as the
\* answer "-": it starts no group, ends no group and is not dropped.
C5_LiteralDashIsAnAnswer ==
    (/\ pc = "done"
     /\ input.family = "fib"
     /\ input.sectioned
     /\ input.answer_lines # <<>>
     /\ \A n \in 1..Len(input.answer_lines) :
            input.answer_lines[n] \in {GroupLine(<<"x">>), GroupLine(<<"-">>), AlternativeLine(<<"-">>)}
     /\ input.answer_lines[1] # AlternativeLine(<<"-">>)) =>
        LET written == input.answer_lines
            count == Len(written)
            starts == SelectSeq([n \in 1..count |-> n], LAMBDA n : written[n] # AlternativeLine(<<"-">>))
            last(g) == IF g = Len(starts) THEN count ELSE starts[g + 1] - 1
            answer(n) == IF written[n] = GroupLine(<<"x">>) THEN <<"x">> ELSE <<"-">>
            expected == [g \in 1..Len(starts) |->
                            [a \in 1..(last(g) - starts[g] + 1) |-> answer(starts[g] + a - 1)]]
        IN  /\ Has(questions[1], s_correctAnswers)
            /\ questions[1][s_correctAnswers] = ListV(expected)

\* C6: a value written between triple quotes is taken verbatim, newlines
\* included, and the lines inside the quotes are not read as fields.
C6_TripleQuotedVerbatim ==
    (pc = "done" /\ input.family \in {"tf_triple", "mcq_triple"}) =>
        LET verbatim == StrV(Join(input.content, <<"\n">>)) IN
        /\ Len(questions) = 1
        /\ IF input.family = "tf_triple"
           THEN /\ DOMAIN questions[1] =
                       {s_type, s_identifier, s_title, s_adaptive, s_timeDependent, s_prompt, s_correct}
                /\ questions[1][s_prompt] = verbatim
           ELSE /\ DOMAIN questions[1] =
                       {s_type, s_identifier, s_title, s_adaptive, s_timeDependent, s_prompt, s_choices}
                /\ Len(questions[1][s_choices].l) = 4
                /\ questions[1][s_choices].l[1][s_text] = verbatim

\* C7, as stated: a match block with non-empty source and target sets and no
\* correctPairs section gets the pairs [source[i], target[i]] for exactly
\* i = 0..min(|source|, |target|) - 1, and converts without an error.
C7_DefaultPairsAtEveryIndex ==
    (/\ pc = "done"
     /\ input.family = "match"
     /\ input.pairs = "none"
     /\ input.source # <<>>
     /\ input.target # <<>>) =>
        LET pair_count == Min({Len(input.source), Len(input.target)})
            expected == [n \in 1..pair_count |->
                            <<ItemId("S", n, input.source[n]), ItemId("T", n, input.target[n])>>]
        IN  /\ Has(questions[1], s_correctPairs)
            /\ questions[1][s_correctPairs] = ListV(expected)
            /\ errors = <<>>
            /\ Len(xml_questions) = 1
            /\ xml_questions[1].correct_pairs = expected

\* C7, amended: a match block whose matchSets has non-empty source and target
\* sets and that has no correctPairs section gets the pairs
\* [source[i], target[i]] for the indices i < min(|source|, |target|) at which
\* both identifiers are non-empty, in increasing order of i, and nothing else;
\* the block converts without an error.
C7_DefaultPairsWhereBothIdentified ==
    (/\ pc = "done"
     /\ input.family = "match"
     /\ input.pairs = "none"
     /\ input.source # <<>>
     /\ input.target # <<>>) =>
        LET pair_count == Min({Len(input.source), Len(input.target)})
            kept == SelectSeq([n \in 1..pair_count |-> n], LAMBDA n : input.source[n] /\ input.target[n])
            expected == [k \in 1..Len(kept) |->
                            <<ItemId("S", kept[k], TRUE), ItemId("T", kept[k], TRUE)>>]
        IN  /\ Has(questions[1], s_correctPairs)
            /\ questions[1][s_correctPairs] = ListV(expected)
            /\ errors = <<>>
            /\ Len(xml_questions) = 1
            /\ xml_questions[1].correct_pairs = expected

\* a block with two source and two target items, one of them without an
\* identifier, has been converted with one default pair
C7_Witness ==
    /\ pc = "done"
    /\ input.family = "match"
    /\ input.pairs = "none"
    /\ input.source = <<FALSE, TRUE>>
    /\ input.target = <<TRUE, TRUE>>
    /\ Len(xml_questions) = 1
    /\ xml_questions[1].correct_pairs = <<<<<<"S", "2">>, <<"T", "2">>>>>>

\* C8: _validate_order rejects a correctSequence that names the same
\* identifier twice or names an identifier that is not among the choices.
C8_OrderSequenceRejected ==
    verdict.by = "_validate_order" =>
        LET repeated == \E m, n \in 1..Len(input.sequence) : m # n /\ input.sequence[m] = input.sequence[n]
            dangling == \E n \in 1..Len(input.sequence) : input.sequence[n] \notin Range(input.ids)
        IN  (repeated \/ dangling) => ~verdict.outcome.ok

\* _validate_order has rejected, for its duplicates only, a sequence as long
\* as the choices that names choices only
C8_Witness ==
    /\ verdict.by = "_validate_order"
    /\ Len(input.sequence) = Len(input.ids)
    /\ Len(input.ids) >= order_min_choices
    /\ Range(input.sequence) \subseteq Range(input.ids)
    /\ Cardinality(Range(input.sequence)) < Len(input.sequence)
    /\ ~verdict.outcome.ok
    /\ verdict.outcome.kind = "sequence_duplicates"

\* C9: a tf block with the common fields and `correct:` true or false, in any
\* letter case, yields exactly one assessment item, with the identifier of the
\* block and the lower-case word as its correct response.
C9_TfYieldsOneItem ==
    (/\ pc = "done"
     /\ input.family = "tf"
     /\ Lower(input.word) \in {s_true, s_false}) =>
        /\ result = "returned"
        /\ Len(xml_questions) = 1
        /\ xml_questions[1].identifier = Q1
        /\ xml_questions[1].correct_answer = Lower(input.word)

C11_BlocksBeginAtHeaders ==
    (pc = "blocks" /\ questions = <<>>) =>
        LET count == Len(yaml_str)
            headers == SelectSeq([n \in 1..count |-> n], LAMBDA n : StartsWith(yaml_str[n], s_type_header))
            last(b) == IF b = Len(headers) THEN count ELSE headers[b + 1] - 1
        IN  /\ Len(question_blocks) = Len(headers)
            /\ \A b \in 1..Len(question_blocks) :
                   /\ question_blocks[b] # <<>>
                   /\ StartsWith(question_blocks[b][1], s_type_header)
                   /\ question_blocks[b] = BlockLines(SubSeq(yaml_str, headers[b], last(b)))

\* C12: on an empty or whitespace-only text the segmenter yields no block,
\* and convert returns an empty list, records no error and does not raise.
C12_BlankTextYieldsNothing ==
    (\A n \in 1..Len(yaml_str) : \A m \in 1..Len(yaml_str[n]) : yaml_str[n][m] \in {" ", "\t"}) =>
        /\ question_blocks = <<>>
        /\ pc \in {"blocks", "convert", "done"}
        /\ questions = <<>>
        /\ xml_questions = <<>>
        /\ errors = <<>>
        /\ result # "raised"
        /\ pc = "done" => result = "returned"

\* convert has returned for a text of three lines that hold a tab and nothing else
C12_Witness ==
    /\ input.family = "blank"
    /\ yaml_str = <<<<"\t">>, <<>>, <<>>>>
    /\ pc = "done"
    /\ result = "returned"
    /\ xml_questions = <<>>
    /\ errors = <<>>

\* C13: every error convert records carries the identifier of the failed
\* block when the parser extracted one, and otherwise a positional fallback:
\* the errors of two failed blocks without identifier differ in what they
\* give as the identifier.
C13_ErrorsTellTheirBlock ==
    (pc = "done" /\ result = "returned") =>
        LET failed == SelectSeq([k \in 1..Len(questions) |-> k],
                                LAMBDA k : ~ConvertQuestion(questions[k], templates).ok)
            anonymous(e) == ~Has(questions[failed[e]], s_identifier)
        IN  /\ Len(errors) = Len(failed)
            /\ \A e \in 1..Len(errors) :
                   ~anonymous(e) => errors[e].identifier = PyStr(questions[failed[e]][s_identifier])
            /\ \A e, f \in 1..Len(errors) :
                   (e # f /\ anonymous(e) /\ anonymous(f)) => errors[e].identifier # errors[f].identifier

\* C14: validate_question makes the common-attribute check before the check
\* of the type, and every error it raises names the identifier of the
\* question and the missing or invalid field.
C14_ValidationErrorsNameTheQuestion ==
    (verdict.by = "validate_question" /\ input.family = "tf_lacking" /\ ~verdict.outcome.ok) =>
        LET common == _validate_common(questions[1]) IN
        /\ ~common.ok => verdict.outcome = common
        /\ verdict.outcome.field =
               (IF input.key \in {s_identifier, s_title, s_adaptive, s_prompt} THEN input.key ELSE s_correct)
        /\ input.key # s_identifier => verdict.outcome.identifier = <<Q1>>

\* C15: the words true and false, in any letter case, are turned into a
\* boolean only outside the free-text fields: a prompt whose whole value is
\* such a word stays a string, while adaptive and timeDependent become booleans.
C15_FreeTextIsNotCoerced ==
    (pc = "done" /\ input.family = "tf") =>
        /\ Len(questions) = 1
        /\ questions[1][s_prompt] = StrV(input.prompt)
        /\ questions[1][s_adaptive] = BoolV(FALSE)
        /\ questions[1][s_timeDependent] = BoolV(FALSE)

\* C16: the emitter of every type passes every free-text value through the
\* escaper before it puts it in the template: the prompt the tf emitter
\* substitutes is the escaped prompt of the block.
C16_EmittersEscapeFreeText ==
    (pc = "convert" /\ qi = 1 /\ input.family = "tf" /\ Len(questions) = 1) =>
        LET out == _format_question(questions[1], s_tf) IN
        out.ok => out.xml.prompt = EscapeStr(PyStr(questions[1][s_prompt]))

\* C17: a match block with items S1 and T1 that declares the pair under
\* correctPairs (`- - S1` followed by an indented `- T1`) is parsed into exactly the declared pairs,
\* and the emitter outputs one correct-pair value per declared pair and one
\* associable choice per source and target item.
C17_DeclaredPairsAreKept ==
    (/\ pc = "done"
     /\ input.family = "match"
     /\ input.pairs \in {"before", "after"}
     /\ input.source # <<>>
     /\ input.target # <<>>
     /\ input.source[1]
     /\ input.target[1]) =>
        LET declared == <<<<<<"S", "1">>, <<"T", "1">>>>>> IN
        /\ Len(questions) = 1
        /\ Has(questions[1], s_correctPairs)
        /\ questions[1][s_correctPairs] = ListV(declared)
        /\ Len(xml_questions) = 1
        /\ xml_questions[1].correct_pairs = declared
        /\ Len(xml_questions[1].source_choices) = Len(input.source)
        /\ Len(xml_questions[1].target_choices) = Len(input.target)

\* C18: an mcq block with no or with several correct choices, and an mrq
\* block with no correct choice, yield no XML and one recorded error.
C18_CorrectCountEnforced ==
    (pc = "done" /\ input.family = "choice") =>
        LET marked == Cardinality({x \in 1..Len(input.corrects) : input.corrects[x]}) IN
        ((input.type = s_mcq /\ marked # 1) \/ (input.type = s_mrq /\ marked = 0)) =>
            /\ xml_questions = <<>>
            /\ Len(errors) = 1

\* C19: under correctAnswers, a `- - x` line starts a new group that holds x
\* and every following indented `- y` line adds y to that group: there are as
\* many groups as `- - x` lines and each group lists its alternatives in order.
C19_AlternativesJoinTheirGroup ==
    (/\ pc = "done"
     /\ input.family = "fib"
     /\ input.sectioned
     /\ input.answer_lines # <<>>
     /\ \A n \in 1..Len(input.answer_lines) :
            input.answer_lines[n] \in {GroupLine(<<"x">>), AlternativeLine(<<"y">>)}
     /\ input.answer_lines[1] = GroupLine(<<"x">>)) =>
        LET written == input.answer_lines
            count == Len(written)
            starts == SelectSeq([n \in 1..count |-> n], LAMBDA n : written[n] = GroupLine(<<"x">>))
            last(g) == IF g = Len(starts) THEN count ELSE starts[g + 1] - 1
            expected == [g \in 1..Len(starts) |->
                            [a \in 1..(last(g) - starts[g] + 1) |-> IF a = 1 THEN <<"x">> ELSE <<"y">>]]
        IN  /\ Has(questions[1], s_correctAnswers)
            /\ questions[1][s_correctAnswers] = ListV(expected)

\* C20: in every nested-list mode a `key: value` line at column zero ends the
\* mode: the list is stored under its key and the line becomes a key of the
\* field map, not a field of the last item of the list.
C20_ColumnZeroLineEndsMode ==
    (pc = "done" /\ input.family = "exit") =>
        LET stored == CASE input.mode = "choices" -> s_choices
                        [] input.mode = "matchSets" -> s_matchSets
                        [] input.mode = "correctPairs" -> s_correctPairs
                        [] input.mode = "correctSequence" -> s_correctSequence
                        [] input.mode = "correctAnswers" -> s_correctAnswers
        IN  /\ Len(questions) = 1
            /\ Has(questions[1], stored)
            /\ Has(questions[1], <<"n">>)
            /\ questions[1][<<"n">>] = StrV(<<"z">>)

\* C21: at every point of the scan of a block at most one of the flags
\* in_choices, in_match_sets, in_correct_pairs, in_correct_sequence and
\* in_fib_answers is set, in_source and in_target are never both set, and
\* they are set only while in_match_sets is set.
C21_OneModeAtATime ==
    pc = "scan" =>
        LET flags == <<p.in_choices, p.in_match_sets, p.in_correct_pairs, p.in_correct_sequence, p.in_fib_answers>>
        IN  /\ Cardinality({n \in 1..Len(flags) : flags[n]}) <= 1
            /\ ~(p.in_source /\ p.in_target)
            /\ (p.in_source \/ p.in_target) => p.in_match_sets

\* C22: when _format_fib accepts a fib question whose prompt has n blanks,
\* the rebuilt prompt holds n interactions with the response identifiers 1..n
\* from left to right, the i-th at the position of the i-th blank; putting a
\* `_` back for every interaction gives the prompt; and there are n response
\* declarations 1..n, the i-th with the answers of the i-th answer group.
C22_FibPromptRebuilt ==
    (pc \in {"convert", "done"} /\ input.family = "fib" /\ Len(questions) = 1) =>
        LET out == _format_fib(questions[1])
            prompt == questions[1][s_prompt].s
            blanks == Sorted({pos \in 0..(Len(prompt) - 1) :
                                 /\ prompt[pos + 1] = "_"
                                 /\ (pos > 0 => ~IsAlnum(prompt[pos]))
                                 /\ (pos < Len(prompt) - 1 => ~IsAlnum(prompt[pos + 2]))})
            n == Len(blanks)
            parts == out.xml.prompt_with_interactions
            Restored(some) == Flatten([x \in 1..Len(some) |-> IF some[x].k = "text" THEN some[x].s ELSE <<"_">>])
            places == SelectSeq([x \in 1..Len(parts) |-> x], LAMBDA x : parts[x].k = "interaction")
            declarations == out.xml.response_declarations
        IN  out.ok =>
                /\ Len(places) = n
                /\ \A i \in 1..n :
                       /\ parts[places[i]].responseIdentifier = i
                       /\ Len(Restored(SubSeq(parts, 1, places[i] - 1))) = blanks[i]
                /\ Restored(parts) = prompt
                /\ Len(declarations) = n
                /\ \A i \in 1..n :
                       /\ declarations[i].identifier = i
                       /\ declarations[i].values = questions[1][s_correctAnswers].l[i]

\* convert has returned the XML of a fib block whose prompt `a _ b _` has two
\* blanks and whose answer groups are x and -
C22_Witness ==
    /\ pc = "done"
    /\ input.family = "fib"
    /\ input.prompt = <<"a", " ", "_", " ", "b", " ", "_">>
    /\ Len(xml_questions) = 1
    /\ xml_questions[1] = _format_fib(questions[1]).xml
    /\ Len(xml_questions[1].response_declarations) = 2
    /\ xml_questions[1].response_declarations[1].values = <<<<"x">>>>
    /\ xml_questions[1].response_declarations[2].values = <<<<"-">>>>

\* C23: _validate_fib and _format_fib count the blanks of a prompt alike,
\* both counting only the underscores that touch no alphanumeric character,
\* so that a fib question _validate_fib accepts is not rejected by
\* _format_fib for its number of blanks.
C23_ValidatorAndEmitterCountAlike ==
    (pc = "done" /\ input.family = "fib" /\ Len(questions) = 1) =>
        LET prompt == questions[1][s_prompt].s
            out == _format_fib(questions[1])
        IN  /\ UnderscoreRuns(prompt) = Cardinality(BlankPositions(prompt))
            /\ _validate_fib(questions[1]).ok => (out.ok \/ out.cause.kind # "blank_count")

\* C24: when _validate_order accepts a question, its correctSequence is as
\* long as its choices, names no identifier twice and names identifiers of
\* choices only, so that it is a permutation of the identifiers of the
\* choices, and these are pairwise distinct.
C24_AcceptedSequenceIsPermutation ==
    (verdict.by = "_validate_order" /\ verdict.outcome.ok) =>
        LET choices == questions[1][s_choices].l
            ids == [n \in 1..Len(choices) |-> choices[n][s_identifier].s]
            sequence == ItemsOf(questions[1][s_correctSequence])
        IN  /\ Len(sequence) = Len(choices)
            /\ \A m, n \in 1..Len(sequence) : m # n => sequence[m] # sequence[n]
            /\ \A n \in 1..Len(sequence) : \E c \in 1..Len(ids) : sequence[n] = ids[c]
            /\ \A c \in 1..Len(ids) : \E n \in 1..Len(sequence) : sequence[n] = ids[c]
            /\ \A c, d \in 1..Len(ids) : c # d => ids[c] # ids[d]

\* _validate_order has accepted the choices A, B with the sequence B, A
C24_Witness ==
    /\ verdict.by = "_validate_order"
    /\ verdict.outcome.ok
    /\ input.family = "order"
    /\ input.ids = <<s_A, s_B>>
    /\ input.sequence = <<s_B, s_A>>
    /\ questions[1][s_correctSequence] = ListV(<<s_B, s_A>>)
    /\ Len(questions[1][s_choices].l) = 2

\* C25: the outcome of a block of a batch (its field map, and its XML or its
\* error) is the outcome the block has when it is processed alone, whatever
\* the other blocks of the batch are and wherever the block stands among them.
C25_BlocksAreIndependent ==
    (pc = "done" /\ input.family = "batch") =>
        LET alone(k) == ParseBlock(BlockLines(BatchBlocks[input.blocks[k]]))
            parsed == SelectSeq([k \in 1..Len(input.blocks) |-> k], LAMBDA k : ~alone(k).raised)
            outcome(n) == ConvertQuestion(alone(parsed[n]).question, templates)
            emitted == SelectSeq([n \in 1..Len(parsed) |-> n], LAMBDA n : outcome(n).ok)
            failed == SelectSeq([n \in 1..Len(parsed) |-> n], LAMBDA n : ~outcome(n).ok)
        IN  /\ questions = [n \in 1..Len(parsed) |-> alone(parsed[n]).question]
            /\ xml_questions = [e \in 1..Len(emitted) |-> outcome(emitted[e]).xml]
            /\ errors = [e \in 1..Len(failed) |-> outcome(failed[e])]

\* C26: _escape_xml_chars maps a string to the concatenation of the images
\* of its characters (& to &amp;, < to &lt;, > to &gt;, " to &quot;, ' to
\* &apos;, any other character to itself); the result has no raw <, >, " or '
\* and every & in it begins one of the five entities.
C26_EscapeIsCharacterwise ==
    verdict.by = "_escape_xml_chars" =>
        LET text == input.text
            out == verdict.outcome
            image(c) == CASE c = "&" -> <<"&", "a", "m", "p", ";">>
                          [] c = "<" -> <<"&", "l", "t", ";">>
                          [] c = ">" -> <<"&", "g", "t", ";">>
                          [] c = "\"" -> <<"&", "q", "u", "o", "t", ";">>
                          [] c = "'" -> <<"&", "a", "p", "o", "s", ";">>
                          [] OTHER -> <<c>>
            entities == {image(c) : c \in {"&", "<", ">", "\"", "'"}}
        IN  /\ out = Flatten([n \in 1..Len(text) |-> image(text[n])])
            /\ \A n \in 1..Len(out) : out[n] \notin {"<", ">", "\"", "'"}
            /\ \A n \in 1..Len(out) :
                   out[n] = "&" =>
                       \E e \in entities : n + Len(e) - 1 <= Len(out) /\ SubSeq(out, n, n + Len(e) - 1) = e

\* _escape_xml_chars has been called on the text `a<&` and has returned `a&lt;&amp;`
C26_Witness ==
    /\ verdict.by = "_escape_xml_chars"
    /\ input.text = <<"a", "<", "&">>
    /\ verdict.outcome = <<"a", "&", "l", "t", ";", "&", "a", "m", "p", ";">>

\* C27: _custom_yaml_parse terminates: the line index never passes the end
\* of the block, and every iteration of the scan either advances the line
\* index or leaves it where it is and clears a mode flag without setting
\* one, so that a line is examined a bounded number of times.
C27_EveryIterationProgresses ==
    (pc = "scan" /\ p.i < Len(lines)) =>
        LET ModeFlags(q) ==
                {name \in {"choices", "match_sets", "correct_pairs", "correct_sequence", "fib_answers"} :
                    CASE name = "choices" -> q.in_choices
                      [] name = "match_sets" -> q.in_match_sets
                      [] name = "correct_pairs" -> q.in_correct_pairs
                      [] name = "correct_sequence" -> q.in_correct_sequence
                      [] name = "fib_answers" -> q.in_fib_answers}
            after == ParseLine(p, lines)
        IN  /\ after.i <= Len(lines)
            /\ \/ after.i > p.i
               \/ /\ after.i = p.i
                  /\ ModeFlags(after) \subseteq ModeFlags(p)
                  /\ ModeFlags(after) # ModeFlags(p)

\* the parser has returned for a fib block whose correctAnswers mode was left
\* at a line at column zero, which was then examined again and stored
C27_Witness ==
    /\ pc = "convert"
    /\ input.family = "exit"
    /\ input.mode = "correctAnswers"
    /\ Len(questions) = 1
    /\ Has(questions[1], s_correctAnswers)
    /\ Has(questions[1], <<"n">>)

\* C28: the parsed choices list has exactly one entry for every
\* `- identifier:` line of the choices section, in the order of the lines,
\* whether the section ends at the end of the block or at a line at column
\* zero; and every `- identifier:` item under source: or target: of matchSets
\* is exactly once, in order, in the list of the set it was written under.
C28_EveryItemParsedOnce ==
    (/\ pc \in {"convert", "done"}
     /\ input.family \in {"choice", "order", "match", "exit"}
     /\ input.family = "exit" => input.mode \in {"choices", "matchSets", "correctSequence"}) =>
        LET Identifiers(items) == [n \in 1..Len(items) |-> items[n][s_identifier].s]
            Items(key) == IF Has(questions[1], key) THEN questions[1][key].l ELSE <<>>
            Set(name) == IF Has(questions[1], s_matchSets) THEN questions[1][s_matchSets].d[name] ELSE <<>>
            of_match == input.family = "match" \/ (input.family = "exit" /\ input.mode = "matchSets")
            source == IF input.family = "match" THEN input.source ELSE <<TRUE>>
            target == IF input.family = "match" THEN input.target ELSE <<TRUE>>
            written == CASE input.family = "choice" -> PoolIds(Len(input.corrects), input.r)
                         [] input.family = "order" -> input.ids
                         [] OTHER -> <<s_A, s_B>>
        IN  /\ Len(questions) = 1
            /\ of_match =>
                   /\ Identifiers(Set("source")) = [x \in 1..Len(source) |-> ItemId("S", x, source[x])]
                   /\ Identifiers(Set("target")) = [x \in 1..Len(target) |-> ItemId("T", x, target[x])]
            /\ ~of_match => Identifiers(Items(s_choices)) = written

\* C29: once a fib block has been parsed, the non-empty answer groups the
\* scan of its correctAnswers section has accumulated are the value of
\* correctAnswers in the field map, in order, whatever the last line of the
\* section is: when an answer was read the key is set and no group is lost.
C29_AnswerGroupsAreStored ==
    (/\ pc \in {"convert", "done"}
     /\ input.family = "fib"
     /\ input.sectioned
     /\ Len(questions) = 1) =>
        LET accumulated ==
                p.fib_answers \o (IF p.current_fib_answer # <<>> THEN <<p.current_fib_answer>> ELSE <<>>)
        IN  accumulated # <<>> =>
                /\ Has(questions[1], s_correctAnswers)
                /\ questions[1][s_correctAnswers] = ListV(accumulated)

\* C30: the field map of a block does not depend on whether a top-level
\* `key: value` line stands before or after a nested list section: a fib
\* block with `expectedLength: 5` after its correctAnswers section is parsed
\* into the field map of the block with that line before the section, and
\* expectedLength is a key of the field map.
C30_FieldPlacementIsIrrelevant ==
    (/\ pc \in {"convert", "done"}
     /\ input.family = "fib"
     /\ input.sectioned
     /\ Len(input.answer_lines) >= 2
     /\ input.answer_lines[Len(input.answer_lines)] = Field(2, s_expectedLength, <<"5">>)
     /\ \A n \in 1..(Len(input.answer_lines) - 1) :
            input.answer_lines[n] \in {GroupLine(<<"x">>), GroupLine(<<"-">>)}) =>
        LET field == Field(2, s_expectedLength, <<"5">>)
            answers == SubSeq(input.answer_lines, 1, Len(input.answer_lines) - 1)
            moved == FibBlock(input.prompt, FALSE, <<>>) \o <<field>>
                     \o <<Field(2, s_correctAnswers, <<>>)>> \o answers
        IN  /\ Len(questions) = 1
            /\ Has(questions[1], s_expectedLength)
            /\ questions[1] = ParseBlock(moved).question

====
